---- MODULE Spec2Model ----
(***************************************************************************)
(* Bond_Fabric: the BondToken, Compliance and CorporateAction chaincodes,  *)
(* each over its own key-value world state (Spec, SpecCompliance,          *)
(* SpecCorporate).  Every handler runs as one transaction: it reads the    *)
(* committed state, and on success its writes and its event are committed  *)
(* together; on an error return nothing is committed.                      *)
(* The SpecConcurrent... specifications take simulation and commit apart:  *)
(* a transaction is simulated against the committed state and validated    *)
(* later by the versions of the keys it read.                              *)
(*                                                                         *)
(* Go strings are TLA+ strings (keys are built with \o as fmt.Sprintf      *)
(* builds them); a date argument is the sequence of its characters so that *)
(* time.Parse is modelled by what it does.  A stored value is the JSON     *)
(* object json.Marshal produces: a record whose fields are the json tags.  *)
(***************************************************************************)
EXTENDS Integers, Sequences, FiniteSets, TLC

\* ledger:       the committed world state, key -> stored JSON object
\* last:         the last call: its operation, arguments, error, result, event
\* issuedSupply: bondID -> the totalSupply argument of the IssueBond call
\*               that created the bond (history, read by no handler)
\* version:      key -> the number of committed writes of the key
\* transactions: the transactions simulated so far, each with its read set,
\*               its write set and what validation made of it
\* (version and transactions change only where transactions are simulated and
\* validated apart; a handler run start to finish leaves them alone)
VARIABLES ledger, last, issuedSupply, version, transactions

vars == <<ledger, last, issuedSupply, version, transactions>>

---------------------------------------------------------------------------
(* Bounds of the model *)

\* totalSupply arguments are drawn from 0..MaxAmount and transfer quantities
\* from -1..MaxAmount (both int64, neither validated against the other)
MaxAmount == 1
\* int64 is scaled to -(MaxInt+1)..MaxInt; arithmetic wraps as Go's does
MaxInt == 7

Addresses == {"a", "b"}
\* "a_B" is a bond identifier that is also the holder key of ("a", "B")
BondIDs == {"B", "a_B"}
SupplyValues == 0..MaxAmount
Quantities == -1..MaxAmount
\* readings of the local clock (time.Now)
Times == {1}
Statuses == {"ACTIVE", "MATURED", "DEFAULTED"}
\* UpdateBondStatus takes any string
NewStatuses == {"ACTIVE", "MATURED", "CLOSED"}
TxIDs == {"tx1"}

\* date arguments: well formed, wrong layout, day out of range
DateStrs ==
  { <<"2","0","2","9","-","0","1","-","0","1">>,
    <<"0","1","/","0","1","/","2","0","2","9">>,
    <<"2","0","2","9","-","0","2","-","3","0">> }

\* the pass-through arguments of IssueBond
TermsSet ==
  { [issuerName |-> "Acme", currency |-> "USD", isin |-> "US0001",
     rating |-> "AA", collateral |-> "none", faceValue |-> 1000,
     couponRate |-> 5] }

---------------------------------------------------------------------------
(* The ledger substrate: point reads and writes of one key *)

\* what GetState returns for a key that holds nothing (nil)
Nil == [nil |-> TRUE]

GetState(l, key) == IF key \in DOMAIN l THEN l[key] ELSE Nil

PutState(l, key, value) ==
  [k \in (DOMAIN l) \cup {key} |-> IF k = key THEN value ELSE l[k]]

\* json.Unmarshal into a struct: a field the object lacks keeps its zero value
Field(obj, name, zero) == IF name \in DOMAIN obj THEN obj[name] ELSE zero

\* int64 arithmetic wraps around
WrapInt64(x) == ((x + MaxInt + 1) % (2 * (MaxInt + 1))) - (MaxInt + 1)

NoEvent == [name |-> ""]

---------------------------------------------------------------------------
(* time.Parse("2006-01-02", s) *)

DigitChars == <<"0", "1", "2", "3", "4", "5", "6", "7", "8", "9">>

IsDigit(c) == \E i \in 1..10 : DigitChars[i] = c

DigitValue(c) == (CHOOSE i \in 1..10 : DigitChars[i] = c) - 1

IsLeap(y) == (y % 4 = 0) /\ ((y % 100 # 0) \/ (y % 400 = 0))

DaysIn(y, m) ==
  IF m = 2 THEN (IF IsLeap(y) THEN 29 ELSE 28)
  ELSE IF m \in {4, 6, 9, 11} THEN 30 ELSE 31

\* [ok, date]: the layout is four digits, '-', two digits, '-', two digits,
\* and the month and the day must be in range
ParseDate(s) ==
  LET shaped == /\ Len(s) = 10
                /\ s[5] = "-" /\ s[8] = "-"
                /\ \A i \in {1, 2, 3, 4, 6, 7, 9, 10} : IsDigit(s[i])
      y == 1000 * DigitValue(s[1]) + 100 * DigitValue(s[2])
             + 10 * DigitValue(s[3]) + DigitValue(s[4])
      m == 10 * DigitValue(s[6]) + DigitValue(s[7])
      d == 10 * DigitValue(s[9]) + DigitValue(s[10])
  IN IF shaped /\ m \in 1..12 /\ d \in 1..DaysIn(y, m)
     THEN [ok |-> TRUE, date |-> <<y, m, d>>]
     ELSE [ok |-> FALSE, date |-> <<0, 0, 0>>]

---------------------------------------------------------------------------
(* BondToken: records and reads *)

\* json.Unmarshal(bytes, &Bond{})
DecodeBond(obj) ==
  [id |-> Field(obj, "id", ""),
   issuerId |-> Field(obj, "issuerId", ""),
   issuerName |-> Field(obj, "issuerName", ""),
   faceValue |-> Field(obj, "faceValue", 0),
   couponRate |-> Field(obj, "couponRate", 0),
   maturityDate |-> Field(obj, "maturityDate", <<0, 0, 0>>),
   issueDate |-> Field(obj, "issueDate", 0),
   totalSupply |-> Field(obj, "totalSupply", 0),
   availableSupply |-> Field(obj, "availableSupply", 0),
   status |-> Field(obj, "status", ""),
   currency |-> Field(obj, "currency", ""),
   isin |-> Field(obj, "isin", ""),
   rating |-> Field(obj, "rating", ""),
   collateral |-> Field(obj, "collateral", "")]

\* json.Unmarshal(bytes, &TokenHolder{}); a nil map marshals as null
DecodeTokenHolder(obj) ==
  [address |-> Field(obj, "address", ""),
   bondId |-> Field(obj, "bondId", ""),
   quantity |-> Field(obj, "quantity", 0),
   lastUpdated |-> Field(obj, "lastUpdated", 0),
   metadata |-> Field(obj, "metadata", "null")]

\* fmt.Sprintf("%s_%s", address, bondID)
HolderKey(address, bondID) == address \o "_" \o bondID

BondExists(l, bondID) == GetState(l, bondID) # Nil

GetBond(l, bondID) ==
  IF GetState(l, bondID) = Nil
  THEN [err |-> "bond " \o bondID \o " does not exist", bond |-> Nil]
  ELSE [err |-> "", bond |-> DecodeBond(GetState(l, bondID))]

GetTokenHolder(l, holderKey) ==
  IF GetState(l, holderKey) = Nil
  THEN [err |-> "holder " \o holderKey \o " does not exist", holder |-> Nil]
  ELSE [err |-> "", holder |-> DecodeTokenHolder(GetState(l, holderKey))]

\* GetBalance with the read error passed on to the caller
GetBalanceResultPropagate(l, address, bondID) ==
  LET got == GetTokenHolder(l, HolderKey(address, bondID))
  IN IF got.err # "" THEN [ret |-> 0, err |-> got.err]
     ELSE [ret |-> got.holder.quantity, err |-> ""]

\* GetBalance: [ret, err]
GetBalanceResult(l, address, bondID) ==
  LET got == GetTokenHolder(l, HolderKey(address, bondID))
  IN IF got.err # "" THEN [ret |-> 0, err |-> ""]
     ELSE [ret |-> got.holder.quantity, err |-> ""]

\* a handler that returns an error commits nothing
Fail(l, msg) == [err |-> msg, ledger |-> l, event |-> NoEvent]

---------------------------------------------------------------------------
(* BondToken.IssueBond *)

\* IssueBondCheck with the date parsed before the existence check
IssueBondCheckParseFirst(l, bondID, maturityDateStr) ==
  IF ~ParseDate(maturityDateStr).ok THEN "invalid maturity date format"
  ELSE IF BondExists(l, bondID) THEN "bond " \o bondID \o " already exists"
  ELSE ""

\* the checks before the bond is built: "" when they pass
IssueBondCheck(l, bondID, maturityDateStr) ==
  IF BondExists(l, bondID) THEN "bond " \o bondID \o " already exists"
  ELSE IF ~ParseDate(maturityDateStr).ok THEN "invalid maturity date format"
  ELSE ""

\* the keys IssueBond writes
IssueBondWrites(l, bondID, issuerID, terms, totalSupply, maturityDate, t1) ==
  PutState(l, bondID,
    [id |-> bondID, issuerId |-> issuerID, issuerName |-> terms.issuerName,
     faceValue |-> terms.faceValue, couponRate |-> terms.couponRate,
     maturityDate |-> maturityDate, issueDate |-> t1,
     totalSupply |-> totalSupply, availableSupply |-> totalSupply,
     status |-> "ACTIVE", currency |-> terms.currency, isin |-> terms.isin,
     rating |-> terms.rating, collateral |-> terms.collateral])

IssueBondOutcome(l, bondID, issuerID, terms, totalSupply, maturityDateStr, t1, t2, txID) ==
  LET e == IssueBondCheck(l, bondID, maturityDateStr)
  IN IF e # "" THEN Fail(l, e)
     ELSE [err |-> "",
           ledger |-> IssueBondWrites(l, bondID, issuerID, terms, totalSupply,
                                      ParseDate(maturityDateStr).date, t1),
           event |-> [name |-> "BondIssued", from |-> "SYSTEM",
                      to |-> issuerID, bondId |-> bondID,
                      quantity |-> totalSupply, timestamp |-> t2,
                      txId |-> txID]]

IssueBond ==
  \E bondID \in BondIDs, issuerID \in Addresses, terms \in TermsSet,
     totalSupply \in SupplyValues, maturityDateStr \in DateStrs,
     t1 \in Times, t2 \in Times, txID \in TxIDs :
    /\ t1 <= t2
    /\ LET out == IssueBondOutcome(ledger, bondID, issuerID, terms,
                                   totalSupply, maturityDateStr, t1, t2, txID)
       IN /\ ledger' = out.ledger
          /\ last' = [op |-> "IssueBond",
                      args |-> [bondID |-> bondID, issuerID |-> issuerID,
                                totalSupply |-> totalSupply,
                                maturityDate |-> maturityDateStr],
                      err |-> out.err, ret |-> 0, event |-> out.event]
          /\ issuedSupply' =
               IF out.err = "" /\ bondID \notin DOMAIN issuedSupply
               THEN PutState(issuedSupply, bondID, totalSupply)
               ELSE issuedSupply
          /\ UNCHANGED <<version, transactions>>

---------------------------------------------------------------------------
(* BondToken.Transfer *)

\* TransferCheck with the quantity checked before the bond
TransferCheckQuantityFirst(l, bondID, quantity) ==
  IF quantity <= 0 THEN "quantity must be positive"
  ELSE IF ~BondExists(l, bondID) THEN "bond " \o bondID \o " does not exist"
  ELSE ""

\* the checks on the bond and the quantity: "" when they pass
TransferCheck(l, bondID, quantity) ==
  IF ~BondExists(l, bondID) THEN "bond " \o bondID \o " does not exist"
  ELSE IF quantity <= 0 THEN "quantity must be positive"
  ELSE ""

\* InsufficientBalance with the comparison inverted
InsufficientBalanceInverted(senderHolder, quantity) ==
  senderHolder.quantity > quantity

\* senderHolder.Quantity < quantity
InsufficientBalance(senderHolder, quantity) == senderHolder.quantity < quantity

\* the recipient's record, or a new one with quantity 0
RecipientHolder(l, to, bondID, t0) ==
  LET got == GetTokenHolder(l, HolderKey(to, bondID))
  IN IF got.err # ""
     THEN [address |-> to, bondId |-> bondID, quantity |-> 0,
           lastUpdated |-> t0, metadata |-> "{}"]
     ELSE got.holder

\* both holders are read before either is written; the sender's record is
\* written first, the recipient's second
TransferWrites(l, from, to, bondID, quantity, senderHolder, t1, t2) ==
  LET recipientHolder == RecipientHolder(l, to, bondID, t1)
      sender == [senderHolder EXCEPT
                   !.quantity = WrapInt64(@ - quantity), !.lastUpdated = t1]
      recipient == [recipientHolder EXCEPT
                      !.quantity = WrapInt64(@ + quantity), !.lastUpdated = t2]
  IN PutState(PutState(l, HolderKey(from, bondID), sender),
              HolderKey(to, bondID), recipient)

TransferOutcome(l, from, to, bondID, quantity, t1, t2, t3, txID) ==
  LET e == TransferCheck(l, bondID, quantity)
      got == GetTokenHolder(l, HolderKey(from, bondID))
  IN IF e # "" THEN Fail(l, e)
     ELSE IF got.err # ""
     THEN Fail(l, "failed to get sender holder: " \o got.err)
     ELSE IF InsufficientBalance(got.holder, quantity)
     THEN Fail(l, "insufficient balance: " \o ToString(got.holder.quantity)
                    \o " < " \o ToString(quantity))
     ELSE [err |-> "",
           ledger |-> TransferWrites(l, from, to, bondID, quantity,
                                     got.holder, t1, t2),
           event |-> [name |-> "TokensTransferred", from |-> from, to |-> to,
                      bondId |-> bondID, quantity |-> quantity,
                      timestamp |-> t3, txId |-> txID]]

Transfer ==
  \E from \in Addresses, to \in Addresses, bondID \in BondIDs,
     quantity \in Quantities, t1 \in Times, t2 \in Times, t3 \in Times,
     txID \in TxIDs :
    /\ t1 <= t2 /\ t2 <= t3
    /\ LET out == TransferOutcome(ledger, from, to, bondID, quantity,
                                  t1, t2, t3, txID)
       IN /\ ledger' = out.ledger
          /\ last' = [op |-> "Transfer",
                      args |-> [from |-> from, to |-> to, bondID |-> bondID,
                                quantity |-> quantity],
                      err |-> out.err, ret |-> 0, event |-> out.event]
    /\ UNCHANGED <<issuedSupply, version, transactions>>

---------------------------------------------------------------------------
(* BondToken.UpdateBondStatus, BondToken.GetBalance *)

\* UpdateBondStatus writing a fresh Bond instead of the one it read
UpdateBondStatusOutcomeFresh(l, bondID, newStatus) ==
  LET got == GetBond(l, bondID)
  IN IF got.err # "" THEN Fail(l, "failed to get bond: " \o got.err)
     ELSE [err |-> "",
           ledger |-> PutState(l, bondID,
                               [DecodeBond(Nil) EXCEPT !.id = bondID,
                                                       !.status = newStatus]),
           event |-> NoEvent]

UpdateBondStatusOutcome(l, bondID, newStatus) ==
  LET got == GetBond(l, bondID)
  IN IF got.err # "" THEN Fail(l, "failed to get bond: " \o got.err)
     ELSE [err |-> "",
           ledger |-> PutState(l, bondID,
                               [got.bond EXCEPT !.status = newStatus]),
           event |-> NoEvent]

UpdateBondStatus ==
  \E bondID \in BondIDs, newStatus \in NewStatuses :
    LET out == UpdateBondStatusOutcome(ledger, bondID, newStatus)
    IN /\ ledger' = out.ledger
       /\ last' = [op |-> "UpdateBondStatus",
                   args |-> [bondID |-> bondID, newStatus |-> newStatus],
                   err |-> out.err, ret |-> 0, event |-> out.event]
       /\ UNCHANGED <<issuedSupply, version, transactions>>

GetBalance ==
  \E address \in Addresses, bondID \in BondIDs :
    LET out == GetBalanceResult(ledger, address, bondID)
    IN /\ last' = [op |-> "GetBalance",
                   args |-> [address |-> address, bondID |-> bondID],
                   err |-> out.err, ret |-> out.ret, event |-> NoEvent]
       /\ UNCHANGED <<ledger, issuedSupply, version, transactions>>

---------------------------------------------------------------------------
(* The bond ledger, from the empty world state *)

EmptyLedger == [k \in {} |-> Nil]

Init ==
  /\ ledger = EmptyLedger
  /\ issuedSupply = EmptyLedger
  /\ version = EmptyLedger
  /\ transactions = {}
  /\ last = [op |-> "Init", args |-> [none |-> TRUE], err |-> "", ret |-> 0,
             event |-> NoEvent]

Next ==
  \/ IssueBond
  \/ Transfer
  \/ UpdateBondStatus
  \/ GetBalance

Spec == Init /\ [][Next]_vars

---------------------------------------------------------------------------
(* Vocabulary of the properties *)

\* a stored object is a Bond record / a TokenHolder record
IsBondRecord(obj) == "totalSupply" \in DOMAIN obj
IsHolderRecord(obj) == "quantity" \in DOMAIN obj

HasBondRecord(l, bondID) == bondID \in DOMAIN l /\ IsBondRecord(l[bondID])

\* the keys of the TokenHolder records of a bond
HolderKeysOf(l, bondID) ==
  {k \in DOMAIN l : IsHolderRecord(l[k]) /\ Field(l[k], "bondId", "") = bondID}

RECURSIVE SumQuantities(_, _)
SumQuantities(l, keys) ==
  IF keys = {} THEN 0
  ELSE LET k == CHOOSE x \in keys : TRUE
       IN l[k].quantity + SumQuantities(l, keys \ {k})

\* the balance an address has of a bond: its record's quantity, 0 without one
BalanceOf(l, address, bondID) ==
  IF HolderKey(address, bondID) \in DOMAIN l
  THEN Field(l[HolderKey(address, bondID)], "quantity", 0)
  ELSE 0

BalancesUnchanged ==
  \A a \in Addresses, b \in BondIDs :
    BalanceOf(ledger', a, b) = BalanceOf(ledger, a, b)

InsufficientBalanceError(balance, quantity) ==
  "insufficient balance: " \o ToString(balance) \o " < " \o ToString(quantity)

---------------------------------------------------------------------------
(* Properties of the bond ledger *)

\* C1: balance conservation: for every issued bond, the quantities of all the
\* TokenHolder records of the bond sum to the bond's totalSupply, in every
\* state reached by IssueBond and Transfer calls.
C1_BalanceConservation ==
  \A b \in DOMAIN ledger :
    IsBondRecord(ledger[b]) =>
      SumQuantities(ledger, HolderKeysOf(ledger, b)) = ledger[b].totalSupply

\* C2: after a successful IssueBond the Bond record has availableSupply =
\* totalSupply and status ACTIVE, the issuer has a TokenHolder record with
\* quantity totalSupply, and GetBalance(issuer, bondID) returns totalSupply.
C2_IssueCreditsIssuer ==
  (last.op = "IssueBond" /\ last.err = "") =>
    LET b == last.args.bondID
        key == HolderKey(last.args.issuerID, b)
    IN /\ HasBondRecord(ledger, b)
       /\ ledger[b].totalSupply = last.args.totalSupply
       /\ ledger[b].availableSupply = last.args.totalSupply
       /\ ledger[b].status = "ACTIVE"
       /\ key \in DOMAIN ledger
       /\ IsHolderRecord(ledger[key])
       /\ ledger[key].quantity = last.args.totalSupply
       /\ GetBalanceResult(ledger, last.args.issuerID, b).ret
            = last.args.totalSupply

\* C3: end to end: a Transfer(issuer, investor, bondID, q) that follows the
\* IssueBond of the bond with totalSupply S, with 0 < q <= S and investor #
\* issuer, succeeds and leaves issuer S - q, investor q, totalSupply S.
C3_IssueThenTransfer ==
  [][ ( /\ last.op = "IssueBond" /\ last.err = ""
        /\ last'.op = "Transfer"
        /\ last'.args.bondID = last.args.bondID
        /\ last'.args.from = last.args.issuerID
        /\ last'.args.to # last.args.issuerID
        /\ 0 < last'.args.quantity
        /\ last'.args.quantity <= last.args.totalSupply )
      => ( /\ last'.err = ""
           /\ BalanceOf(ledger', last'.args.from, last'.args.bondID)
                = last.args.totalSupply - last'.args.quantity
           /\ BalanceOf(ledger', last'.args.to, last'.args.bondID)
                = last'.args.quantity
           /\ HasBondRecord(ledger', last'.args.bondID)
           /\ ledger'[last'.args.bondID].totalSupply = last.args.totalSupply )
    ]_vars

\* C4: no negative balances: in every reachable state every stored
\* TokenHolder record has quantity >= 0.
C4_NoNegativeBalance ==
  \A k \in DOMAIN ledger :
    IsHolderRecord(ledger[k]) => ledger[k].quantity >= 0

\* C4 witness: a Transfer got as far as the balance check, against the object
\* stored under its sender key, and was turned down there.
C4_Witness ==
  /\ last.op = "Transfer"
  /\ HolderKey(last.args.from, last.args.bondID) \in DOMAIN ledger
  /\ last.err = InsufficientBalanceError(0, last.args.quantity)
  /\ C4_NoNegativeBalance

\* C5: an overdraw is rejected without effect: a Transfer (of a positive
\* quantity, on an existing bond) whose quantity exceeds the sender's balance
\* returns InsufficientBalance and leaves every balance of every bond as it was.
C5_OverdrawRejected ==
  [][ ( /\ last'.op = "Transfer"
        /\ HasBondRecord(ledger, last'.args.bondID)
        /\ last'.args.quantity > 0
        /\ last'.args.quantity
             > BalanceOf(ledger, last'.args.from, last'.args.bondID) )
      => ( /\ last'.err = InsufficientBalanceError(
                            BalanceOf(ledger, last'.args.from, last'.args.bondID),
                            last'.args.quantity)
           /\ BalancesUnchanged )
    ]_vars

\* C6: a Transfer of a positive quantity on an existing bond from a sender with
\* no TokenHolder record fails with InsufficientBalance (balance taken as 0),
\* not with a not-found error, and writes nothing.
C6_MissingSenderIsZero ==
  [][ ( /\ last'.op = "Transfer"
        /\ HasBondRecord(ledger, last'.args.bondID)
        /\ last'.args.quantity > 0
        /\ HolderKey(last'.args.from, last'.args.bondID) \notin DOMAIN ledger )
      => ( /\ last'.err = InsufficientBalanceError(0, last'.args.quantity)
           /\ ledger' = ledger
           /\ last'.event = NoEvent )
    ]_vars

\* C7: Transfer on a bondID with no Bond record fails "does not exist"
\* whatever the quantity, and Transfer on an existing bond with quantity <= 0
\* fails "quantity must be positive"; either way no key is written and no
\* event is emitted.
C7_TransferValidation ==
  [][ last'.op = "Transfer" =>
        /\ ~HasBondRecord(ledger, last'.args.bondID) =>
             /\ last'.err = "bond " \o last'.args.bondID \o " does not exist"
             /\ ledger' = ledger
             /\ last'.event = NoEvent
        /\ (HasBondRecord(ledger, last'.args.bondID) /\ last'.args.quantity <= 0) =>
             /\ last'.err = "quantity must be positive"
             /\ ledger' = ledger
             /\ last'.event = NoEvent
    ]_vars

\* C7 witness: a Transfer of a non-positive quantity on a bond that was never
\* issued, while another bond exists, was answered "does not exist".
C7_Witness ==
  /\ last.op = "Transfer"
  /\ last.args.quantity <= 0
  /\ ~HasBondRecord(ledger, last.args.bondID)
  /\ \E b \in BondIDs : HasBondRecord(ledger, b)
  /\ last.err = "bond " \o last.args.bondID \o " does not exist"
  /\ last.event = NoEvent

\* C8: IssueBond on a bondID whose Bond record exists fails "already exists"
\* and leaves the ledger (the Bond record, every holder balance) unchanged,
\* also when the maturity date does not parse: the existence check comes first.
C8_IssueExisting ==
  [][ (last'.op = "IssueBond" /\ HasBondRecord(ledger, last'.args.bondID)) =>
        /\ last'.err = "bond " \o last'.args.bondID \o " already exists"
        /\ ledger' = ledger
        /\ last'.event = NoEvent
    ]_vars

\* C8 witness: a second IssueBond of an issued bond, with another totalSupply
\* and an unparsable maturity date, was answered "already exists".
C8_Witness ==
  /\ last.op = "IssueBond"
  /\ last.err = "bond " \o last.args.bondID \o " already exists"
  /\ ~ParseDate(last.args.maturityDate).ok
  /\ HasBondRecord(ledger, last.args.bondID)
  /\ ledger[last.args.bondID].totalSupply # last.args.totalSupply

\* C9: totalSupply is fixed at issuance: in every reachable state the stored
\* totalSupply of every issued bond is the value its IssueBond was given.
C9_TotalSupplyFixed ==
  \A b \in DOMAIN issuedSupply :
    /\ HasBondRecord(ledger, b)
    /\ ledger[b].totalSupply = issuedSupply[b]

\* C9 witness: a bond whose status was updated after issuance still has its
\* totalSupply after a repeated IssueBond with another totalSupply.
C9_Witness ==
  /\ last.op = "IssueBond"
  /\ last.err # ""
  /\ last.args.bondID \in DOMAIN issuedSupply
  /\ last.args.totalSupply # issuedSupply[last.args.bondID]
  /\ ledger[last.args.bondID].status = "MATURED"
  /\ ledger[last.args.bondID].totalSupply = issuedSupply[last.args.bondID]
  /\ issuedSupply[last.args.bondID] > 0

\* C10: GetBalance(address, bondID) returns 0 and no error when nothing is
\* stored for the address and the bond, and otherwise exactly the quantity of
\* the stored object (0 when the object carries none).
C10_GetBalance ==
  last.op = "GetBalance" =>
    LET key == HolderKey(last.args.address, last.args.bondID)
    IN /\ last.err = ""
       /\ key \notin DOMAIN ledger => last.ret = 0
       /\ key \in DOMAIN ledger => last.ret = Field(ledger[key], "quantity", 0)

\* C10 witness: GetBalance of an address that holds nothing of an issued bond
\* returned 0 and no error.
C10_Witness ==
  /\ last.op = "GetBalance"
  /\ HasBondRecord(ledger, last.args.bondID)
  /\ HolderKey(last.args.address, last.args.bondID) \notin DOMAIN ledger
  /\ last.ret = 0
  /\ last.err = ""

---------------------------------------------------------------------------
(* Compliance chaincode: its inputs *)

\* "a_PEP" is an address that is also the AML key of ("a", "PEP")
KYCAddresses == {"a", "a_PEP"}
\* the addresses AML checks are created and updated for
AMLAddresses == {"a"}
CheckTypes == {"SANCTIONS", "PEP", "ADVERSE_MEDIA"}
\* UpdateAMLCheck takes any string as status
AMLStatuses == {"PASSED", "FAILED"}
RiskLevels == {"LOW"}
Officers == {"officer1"}
RejectReasons == {"expired id"}

\* the identity arguments of CreateKYC
Identities ==
  { [fullName |-> "Ann", dateOfBirth |-> "1990-01-01", nationality |-> "US",
     idType |-> "PASSPORT", idNumber |-> "US1"] }

\* the (riskScore, details) arguments of CreateAMLCheck
CreateFindings == { [riskScore |-> 75, details |-> "check requested"] }
\* the (riskScore, details) arguments of UpdateAMLCheck
UpdateFindings == { [riskScore |-> 25, details |-> "check done"] }

\* map[string]string: a nil map (JSON null) and make(map[string]string)
NilMap == [isNil |-> TRUE, entries |-> [k \in {} |-> ""]]
EmptyMap == [isNil |-> FALSE, entries |-> [k \in {} |-> ""]]

\* m[key] = value on a map that is not nil
MapSet(m, key, value) ==
  [isNil |-> FALSE,
   entries |-> [k \in (DOMAIN m.entries) \cup {key} |->
                  IF k = key THEN value ELSE m.entries[k]]]

\* time.Now().AddDate(0, 6, 0)
AddSixMonths(t) == [from |-> t, months |-> 6]

---------------------------------------------------------------------------
(* Compliance: records and reads *)

\* json.Unmarshal(bytes, &KYCRecord{})
DecodeKYC(obj) ==
  [address |-> Field(obj, "address", ""),
   fullName |-> Field(obj, "fullName", ""),
   dateOfBirth |-> Field(obj, "dateOfBirth", ""),
   nationality |-> Field(obj, "nationality", ""),
   idType |-> Field(obj, "idType", ""),
   idNumber |-> Field(obj, "idNumber", ""),
   status |-> Field(obj, "status", ""),
   riskLevel |-> Field(obj, "riskLevel", ""),
   approvedBy |-> Field(obj, "approvedBy", ""),
   approvedAt |-> Field(obj, "approvedAt", 0),
   createdAt |-> Field(obj, "createdAt", 0),
   updatedAt |-> Field(obj, "updatedAt", 0),
   metadata |-> Field(obj, "metadata", NilMap)]

\* json.Unmarshal(bytes, &AMLCheck{})
DecodeAML(obj) ==
  [address |-> Field(obj, "address", ""),
   checkType |-> Field(obj, "checkType", ""),
   status |-> Field(obj, "status", ""),
   riskScore |-> Field(obj, "riskScore", 0),
   checkDate |-> Field(obj, "checkDate", 0),
   expiryDate |-> Field(obj, "expiryDate", [from |-> 0, months |-> 0]),
   details |-> Field(obj, "details", ""),
   checkedBy |-> Field(obj, "checkedBy", "")]

\* fmt.Sprintf("%s_%s", address, checkType)
CheckKey(address, checkType) == address \o "_" \o checkType

KYCExists(l, address) == GetState(l, address) # Nil

GetKYC(l, address) ==
  IF GetState(l, address) = Nil
  THEN [err |-> "KYC for address " \o address \o " does not exist", kyc |-> Nil]
  ELSE [err |-> "", kyc |-> DecodeKYC(GetState(l, address))]

GetAMLCheck(l, checkKey) ==
  IF GetState(l, checkKey) = Nil
  THEN [err |-> "AML check " \o checkKey \o " does not exist", check |-> Nil]
  ELSE [err |-> "", check |-> DecodeAML(GetState(l, checkKey))]

ComplianceEvent(name, type, address, details, t, txID) ==
  [name |-> name, type |-> type, address |-> address, details |-> details,
   timestamp |-> t, txId |-> txID]

---------------------------------------------------------------------------
(* Compliance.CreateKYC, ApproveKYC, RejectKYC *)

CreateKYCOutcomeOverwrite(l, address, id, t1, t2, txID) ==
  [err |-> "",
   ledger |-> PutState(l, address,
     [address |-> address, fullName |-> id.fullName,
      dateOfBirth |-> id.dateOfBirth, nationality |-> id.nationality,
      idType |-> id.idType, idNumber |-> id.idNumber,
      status |-> "PENDING", riskLevel |-> "MEDIUM", approvedBy |-> "",
      approvedAt |-> 0, createdAt |-> t1, updatedAt |-> t1,
      metadata |-> EmptyMap]),
   event |-> ComplianceEvent("KYCEvent", "KYC_CREATED", address,
               "KYC created for " \o id.fullName, t2, txID)]

CreateKYCOutcome(l, address, id, t1, t2, txID) ==
  IF KYCExists(l, address)
  THEN Fail(l, "KYC for address " \o address \o " already exists")
  ELSE [err |-> "",
        ledger |-> PutState(l, address,
          [address |-> address, fullName |-> id.fullName,
           dateOfBirth |-> id.dateOfBirth, nationality |-> id.nationality,
           idType |-> id.idType, idNumber |-> id.idNumber,
           status |-> "PENDING", riskLevel |-> "MEDIUM", approvedBy |-> "",
           approvedAt |-> 0, createdAt |-> t1, updatedAt |-> t1,
           metadata |-> EmptyMap]),
        event |-> ComplianceEvent("KYCEvent", "KYC_CREATED", address,
                    "KYC created for " \o id.fullName, t2, txID)]

ApproveKYCOutcome(l, address, approvedBy, riskLevel, t1, t2, txID) ==
  LET got == GetKYC(l, address)
  IN IF got.err # "" THEN Fail(l, "failed to get KYC: " \o got.err)
     ELSE [err |-> "",
           ledger |-> PutState(l, address,
             [got.kyc EXCEPT !.status = "APPROVED", !.riskLevel = riskLevel,
                             !.approvedBy = approvedBy, !.approvedAt = t1,
                             !.updatedAt = t1]),
           event |-> ComplianceEvent("KYCEvent", "KYC_APPROVED", address,
                       "KYC approved by " \o approvedBy, t2, txID)]

\* kyc.Metadata[...] = ... panics on a nil map: the transaction fails
RejectKYCOutcome(l, address, rejectedBy, reason, t1, t2, txID) ==
  LET got == GetKYC(l, address)
  IN IF got.err # "" THEN Fail(l, "failed to get KYC: " \o got.err)
     ELSE IF got.kyc.metadata.isNil
     THEN Fail(l, "panic: assignment to entry in nil map")
     ELSE [err |-> "",
           ledger |-> PutState(l, address,
             [got.kyc EXCEPT !.status = "REJECTED", !.updatedAt = t1,
                !.metadata = MapSet(MapSet(@, "rejection_reason", reason),
                                    "rejected_by", rejectedBy)]),
           event |-> ComplianceEvent("KYCEvent", "KYC_REJECTED", address,
                       "KYC rejected by " \o rejectedBy \o ": " \o reason,
                       t2, txID)]

CallRecord(op, args, out) ==
  [op |-> op, args |-> args, err |-> out.err, ret |-> 0, event |-> out.event]

CreateKYC ==
  \E address \in KYCAddresses, id \in Identities, t1 \in Times, t2 \in Times,
     txID \in TxIDs :
    /\ t1 <= t2
    /\ LET out == CreateKYCOutcome(ledger, address, id, t1, t2, txID)
       IN /\ ledger' = out.ledger
          /\ last' = CallRecord("CreateKYC",
                                [address |-> address, identity |-> id], out)
    /\ UNCHANGED <<issuedSupply, version, transactions>>

ApproveKYC ==
  \E address \in KYCAddresses, approvedBy \in Officers,
     riskLevel \in RiskLevels, t1 \in Times, t2 \in Times, txID \in TxIDs :
    /\ t1 <= t2
    /\ LET out == ApproveKYCOutcome(ledger, address, approvedBy, riskLevel,
                                    t1, t2, txID)
       IN /\ ledger' = out.ledger
          /\ last' = CallRecord("ApproveKYC",
                                [address |-> address, approvedBy |-> approvedBy,
                                 riskLevel |-> riskLevel], out)
    /\ UNCHANGED <<issuedSupply, version, transactions>>

RejectKYC ==
  \E address \in KYCAddresses, rejectedBy \in Officers,
     reason \in RejectReasons, t1 \in Times, t2 \in Times, txID \in TxIDs :
    /\ t1 <= t2
    /\ LET out == RejectKYCOutcome(ledger, address, rejectedBy, reason,
                                   t1, t2, txID)
       IN /\ ledger' = out.ledger
          /\ last' = CallRecord("RejectKYC",
                                [address |-> address, rejectedBy |-> rejectedBy,
                                 reason |-> reason], out)
    /\ UNCHANGED <<issuedSupply, version, transactions>>

---------------------------------------------------------------------------
(* Compliance.CreateAMLCheck, UpdateAMLCheck, CheckCompliance *)

CreateAMLCheckOutcomeGuarded(l, address, checkType, finding, t1, t2, txID) ==
  IF GetState(l, CheckKey(address, checkType)) # Nil
  THEN Fail(l, "AML check " \o CheckKey(address, checkType) \o " already exists")
  ELSE [err |-> "",
        ledger |-> PutState(l, CheckKey(address, checkType),
          [address |-> address, checkType |-> checkType, status |-> "PENDING",
           riskScore |-> finding.riskScore, checkDate |-> t1,
           expiryDate |-> AddSixMonths(t1), details |-> finding.details,
           checkedBy |-> "SYSTEM"]),
        event |-> ComplianceEvent("AMLEvent", "AML_CHECK_CREATED", address,
                    "AML check created for " \o address \o ": " \o checkType,
                    t2, txID)]

CreateAMLCheckOutcome(l, address, checkType, finding, t1, t2, txID) ==
  [err |-> "",
   ledger |-> PutState(l, CheckKey(address, checkType),
     [address |-> address, checkType |-> checkType, status |-> "PENDING",
      riskScore |-> finding.riskScore, checkDate |-> t1,
      expiryDate |-> AddSixMonths(t1), details |-> finding.details,
      checkedBy |-> "SYSTEM"]),
   event |-> ComplianceEvent("AMLEvent", "AML_CHECK_CREATED", address,
               "AML check created for " \o address \o ": " \o checkType,
               t2, txID)]

UpdateAMLCheckOutcome(l, address, checkType, status, finding, t1, t2, txID) ==
  LET checkKey == CheckKey(address, checkType)
  IN IF GetState(l, checkKey) = Nil
     THEN Fail(l, "AML check " \o checkKey \o " does not exist")
     ELSE [err |-> "",
           ledger |-> PutState(l, checkKey,
             [DecodeAML(GetState(l, checkKey)) EXCEPT
                !.status = status, !.riskScore = finding.riskScore,
                !.details = finding.details, !.checkDate = t1]),
           event |-> ComplianceEvent("AMLEvent", "AML_CHECK_UPDATED", address,
                       "AML check updated for " \o address \o ": " \o checkType
                         \o " - " \o status, t2, txID)]

VerdictLogged(l, compliant, reason) ==
  [err |-> "",
   ledger |-> PutState(l, "last_check", [compliant |-> compliant, reason |-> reason]),
   event |-> [name |-> "ComplianceChecked"],
   compliant |-> compliant, reason |-> reason]

Verdict(l, compliant, reason) ==
  [err |-> "", ledger |-> l, event |-> NoEvent, compliant |-> compliant, reason |-> reason]

CheckComplianceOutcome(l, address) ==
  LET got == GetKYC(l, address)
      sanctionsCheck == GetAMLCheck(l, address \o "_SANCTIONS")
      pepCheck == GetAMLCheck(l, address \o "_PEP")
  IN IF got.err # "" THEN Verdict(l, FALSE, "KYC record not found")
     ELSE IF got.kyc.status # "APPROVED"
     THEN Verdict(l, FALSE, "KYC status: " \o got.kyc.status)
     ELSE IF sanctionsCheck.err = "" /\ sanctionsCheck.check.status = "FAILED"
     THEN Verdict(l, FALSE, "Sanctions check failed")
     ELSE IF pepCheck.err = "" /\ pepCheck.check.status = "FAILED"
     THEN Verdict(l, FALSE, "PEP check failed")
     ELSE Verdict(l, TRUE, "Compliant")

\* the status of the record a write replaces ("" when the key was free)
Replaced(l, key) == IF GetState(l, key) = Nil THEN "" ELSE GetState(l, key).status

CreateAMLCheck ==
  \E address \in AMLAddresses, checkType \in CheckTypes,
     finding \in CreateFindings, t1 \in Times, t2 \in Times, txID \in TxIDs :
    /\ t1 <= t2
    /\ LET out == CreateAMLCheckOutcome(ledger, address, checkType, finding,
                                        t1, t2, txID)
       IN /\ ledger' = out.ledger
          /\ last' = [op |-> "CreateAMLCheck",
                      args |-> [address |-> address, checkType |-> checkType,
                                finding |-> finding],
                      err |-> out.err, ret |-> 0, event |-> out.event,
                      replaced |-> Replaced(ledger, CheckKey(address, checkType))]
    /\ UNCHANGED <<issuedSupply, version, transactions>>

UpdateAMLCheck ==
  \E address \in AMLAddresses, checkType \in CheckTypes,
     status \in AMLStatuses, finding \in UpdateFindings,
     t1 \in Times, t2 \in Times, txID \in TxIDs :
    /\ t1 <= t2
    /\ LET out == UpdateAMLCheckOutcome(ledger, address, checkType, status,
                                        finding, t1, t2, txID)
       IN /\ ledger' = out.ledger
          /\ last' = CallRecord("UpdateAMLCheck",
                                [address |-> address, checkType |-> checkType,
                                 status |-> status, finding |-> finding], out)
    /\ UNCHANGED <<issuedSupply, version, transactions>>

CheckCompliance ==
  \E address \in KYCAddresses :
    /\ LET out == CheckComplianceOutcome(ledger, address)
       IN /\ ledger' = out.ledger
          /\ last' = [op |-> "CheckCompliance", args |-> [address |-> address],
                      err |-> out.err,
                      ret |-> [compliant |-> out.compliant, reason |-> out.reason],
                      event |-> out.event]
    /\ UNCHANGED <<issuedSupply, version, transactions>>

NextCompliance ==
  \/ CreateKYC
  \/ ApproveKYC
  \/ RejectKYC
  \/ CreateAMLCheck
  \/ UpdateAMLCheck
  \/ CheckCompliance

SpecCompliance == Init /\ [][NextCompliance]_vars

---------------------------------------------------------------------------
(* Compliance: vocabulary of the properties *)

\* the stored object has the shape json.Marshal gives a KYCRecord
IsKYCRecord(obj) == "fullName" \in DOMAIN obj
\* the stored object has the shape json.Marshal gives an AMLCheck
IsAMLRecord(obj) == "checkType" \in DOMAIN obj

\* the ledger holds the KYC record of this address
HasKYCRecord(l, address) ==
  /\ GetState(l, address) # Nil
  /\ IsKYCRecord(GetState(l, address))
  /\ GetState(l, address).address = address

\* the ledger holds the AML check record of this (address, checkType)
HasAMLRecord(l, address, checkType) ==
  /\ GetState(l, CheckKey(address, checkType)) # Nil
  /\ IsAMLRecord(GetState(l, CheckKey(address, checkType)))
  /\ GetState(l, CheckKey(address, checkType)).address = address
  /\ GetState(l, CheckKey(address, checkType)).checkType = checkType

KYCStatus(l, address) == GetState(l, address).status
AMLStatus(l, address, checkType) == GetState(l, CheckKey(address, checkType)).status

---------------------------------------------------------------------------
\* C11: CreateKYC for an address that already has a KYC record, whatever
\* its status, fails with the already-exists error, writes no key and sets
\* no event: the ledger after the call is the ledger before it.
C11_CreateExistingKYC ==
  [][(last'.op = "CreateKYC" /\ HasKYCRecord(ledger, last'.args.address))
       => /\ last'.err = "KYC for address " \o last'.args.address \o " already exists"
          /\ ledger' = ledger
          /\ last'.event = NoEvent]_vars

\* a second CreateKYC was refused for an address whose record is APPROVED
C11_Witness ==
  /\ last.op = "CreateKYC"
  /\ last.err # ""
  /\ HasKYCRecord(ledger, last.args.address)
  /\ KYCStatus(ledger, last.args.address) = "APPROVED"

\* C12: APPROVED and REJECTED are terminal for a KYC record: a step never
\* changes the status of a record that is APPROVED or REJECTED, and the only
\* status changes of a record are PENDING to APPROVED and PENDING to REJECTED.
C12_KYCStatusTerminal ==
  [][\A address \in KYCAddresses :
       HasKYCRecord(ledger, address) =>
         /\ KYCStatus(ledger, address) \in {"APPROVED", "REJECTED"}
              => /\ HasKYCRecord(ledger', address)
                 /\ KYCStatus(ledger', address) = KYCStatus(ledger, address)
         /\ (HasKYCRecord(ledger', address)
               /\ KYCStatus(ledger', address) # KYCStatus(ledger, address))
              => /\ KYCStatus(ledger, address) = "PENDING"
                 /\ KYCStatus(ledger', address) \in {"APPROVED", "REJECTED"}]_vars

\* the address and the identity fields of the record stored under a key
IdentityOf(l, address) ==
  LET kyc == DecodeKYC(GetState(l, address))
  IN <<kyc.address, kyc.fullName, kyc.dateOfBirth, kyc.nationality,
       kyc.idType, kyc.idNumber>>

\* C13: ApproveKYC and RejectKYC on an address with no KYC record fail with
\* the does-not-exist error and write nothing; on an address with a KYC
\* record they set its status to APPROVED / REJECTED and leave its address
\* and identity fields as they were.
C13_ApproveRejectNeedRecord ==
  [][last'.op \in {"ApproveKYC", "RejectKYC"} =>
       IF HasKYCRecord(ledger, last'.args.address)
       THEN /\ last'.err = ""
            /\ HasKYCRecord(ledger', last'.args.address)
            /\ KYCStatus(ledger', last'.args.address) =
                 (IF last'.op = "ApproveKYC" THEN "APPROVED" ELSE "REJECTED")
            /\ IdentityOf(ledger', last'.args.address) =
                 IdentityOf(ledger, last'.args.address)
       ELSE /\ last'.err = "failed to get KYC: KYC for address "
                             \o last'.args.address \o " does not exist"
            /\ ledger' = ledger
            /\ last'.event = NoEvent]_vars

\* the SANCTIONS or PEP check of the address is stored with status FAILED
AMLFailed(l, address, checkType) ==
  HasAMLRecord(l, address, checkType) /\ AMLStatus(l, address, checkType) = "FAILED"

\* the compliance gate as the specification states it
Compliant(l, address) ==
  /\ HasKYCRecord(l, address)
  /\ KYCStatus(l, address) = "APPROVED"
  /\ ~AMLFailed(l, address, "SANCTIONS")
  /\ ~AMLFailed(l, address, "PEP")

\* C14: CheckCompliance(address) returns compliant exactly when the address
\* has a KYC record with status APPROVED and neither its SANCTIONS check nor
\* its PEP check is stored with status FAILED; checks of other types and
\* PENDING or PASSED checks do not count.
C14_ComplianceGate ==
  last.op = "CheckCompliance" =>
    (last.ret.compliant <=> Compliant(ledger, last.args.address))

\* C15: CheckCompliance reports the first failing condition in the order:
\* no KYC record ("KYC record not found"), KYC not APPROVED ("KYC status:
\* <status>"), SANCTIONS check FAILED ("Sanctions check failed"), PEP check
\* FAILED ("PEP check failed").
C15_ReasonPrecedence ==
  last.op = "CheckCompliance" =>
    IF ~HasKYCRecord(ledger, last.args.address)
    THEN last.ret = [compliant |-> FALSE, reason |-> "KYC record not found"]
    ELSE IF KYCStatus(ledger, last.args.address) # "APPROVED"
    THEN last.ret = [compliant |-> FALSE,
                     reason |-> "KYC status: " \o KYCStatus(ledger, last.args.address)]
    ELSE IF AMLFailed(ledger, last.args.address, "SANCTIONS")
    THEN last.ret = [compliant |-> FALSE, reason |-> "Sanctions check failed"]
    ELSE IF AMLFailed(ledger, last.args.address, "PEP")
    THEN last.ret = [compliant |-> FALSE, reason |-> "PEP check failed"]
    ELSE TRUE

\* C16: CheckCompliance is read-only: for every address and ledger state the
\* call returns no error, writes no key and sets no event.
C16_CheckComplianceReadOnly ==
  [][last'.op = "CheckCompliance" =>
       /\ ledger' = ledger
       /\ last'.event = NoEvent
       /\ last'.err = ""]_vars

\* CheckCompliance answered "PEP check failed" on a ledger of several records
C16_Witness ==
  /\ last.op = "CheckCompliance"
  /\ last.ret.reason = "PEP check failed"
  /\ Cardinality(DOMAIN ledger) >= 3

\* C17: CreateAMLCheck never fails on an existing record: after the call the
\* key of (address, checkType) holds one AML record with status PENDING and
\* the riskScore and details of the call, whatever record was there before
\* (a FAILED one included); no other key changes.
C17_CreateAMLOverwrites ==
  [][last'.op = "CreateAMLCheck" =>
       LET address == last'.args.address
           checkType == last'.args.checkType
           key == CheckKey(address, checkType)
       IN /\ last'.err = ""
          /\ HasAMLRecord(ledger', address, checkType)
          /\ AMLStatus(ledger', address, checkType) = "PENDING"
          /\ GetState(ledger', key).riskScore = last'.args.finding.riskScore
          /\ GetState(ledger', key).details = last'.args.finding.details
          /\ \A k \in (DOMAIN ledger \cup DOMAIN ledger') \ {key} :
               GetState(ledger', k) = GetState(ledger, k)]_vars

\* CreateAMLCheck replaced a FAILED check by a PENDING one
C17_Witness ==
  /\ last.op = "CreateAMLCheck"
  /\ last.err = ""
  /\ last.replaced = "FAILED"
  /\ AMLStatus(ledger, last.args.address, last.args.checkType) = "PENDING"

\* C18: UpdateAMLCheck on an (address, checkType) with no AML record fails
\* with the does-not-exist error and writes nothing; on a pair with an AML
\* record it sets status, riskScore and details to the arguments and leaves
\* address, checkType and expiryDate as they were.
C18_UpdateAMLNeedsRecord ==
  [][last'.op = "UpdateAMLCheck" =>
       LET address == last'.args.address
           checkType == last'.args.checkType
           key == CheckKey(address, checkType)
       IN IF HasAMLRecord(ledger, address, checkType)
          THEN /\ last'.err = ""
               /\ GetState(ledger', key).status = last'.args.status
               /\ GetState(ledger', key).riskScore = last'.args.finding.riskScore
               /\ GetState(ledger', key).details = last'.args.finding.details
               /\ GetState(ledger', key).address = GetState(ledger, key).address
               /\ GetState(ledger', key).checkType = GetState(ledger, key).checkType
               /\ GetState(ledger', key).expiryDate = GetState(ledger, key).expiryDate
          ELSE /\ last'.err = "AML check " \o key \o " does not exist"
               /\ ledger' = ledger
               /\ last'.event = NoEvent]_vars

---------------------------------------------------------------------------
(* CorporateAction chaincode: its inputs *)

CorpBondIDs == {"B", "C"}
\* amount float64
Amounts == {50}

\* the readings of time.Now(): a calendar day and an instant
Nows == { [date |-> <<2029, 1, 1>>, tick |-> 1] }

\* the zero time.Time
ZeroTime == [date |-> <<0, 0, 0>>, tick |-> 0]

\* two dates in the layout 2006-01-02 and one that is not
PaymentDateStrs ==
  { <<"2","0","2","9","-","0","6","-","0","1">>,
    <<"2","0","2","9","-","1","2","-","0","1">>,
    <<"0","6","/","0","1","/","2","0","2","9">> }

\* a number in at least width digits, zero padded
Pad(n, width) ==
  IF width = 4 /\ n < 10 THEN "000" \o ToString(n)
  ELSE IF width = 4 /\ n < 100 THEN "00" \o ToString(n)
  ELSE IF width = 4 /\ n < 1000 THEN "0" \o ToString(n)
  ELSE IF width = 2 /\ n < 10 THEN "0" \o ToString(n)
  ELSE ToString(n)

\* time.Now().Format("20060102")
FormatDay(now) == Pad(now.date[1], 4) \o Pad(now.date[2], 2) \o Pad(now.date[3], 2)

\* fmt.Sprintf("COUPON_%s_%s", bondID, time.Now().Format("20060102"))
CouponID(bondID, now) == "COUPON_" \o bondID \o "_" \o FormatDay(now)

\* fmt.Sprintf("REDEMPTION_%s_%s", bondID, time.Now().Format("20060102"))
RedemptionID(bondID, now) == "REDEMPTION_" \o bondID \o "_" \o FormatDay(now)

\* the identifiers passed to ProcessCouponPayment and ProcessRedemption
ActionIDs ==
  {CouponID(b, n) : b \in CorpBondIDs, n \in Nows}
    \cup {RedemptionID(b, n) : b \in CorpBondIDs, n \in Nows}

---------------------------------------------------------------------------
(* CorporateAction: records and reads *)

\* json.Unmarshal(bytes, &CouponPayment{})
DecodeCoupon(obj) ==
  [id |-> Field(obj, "id", ""),
   bondId |-> Field(obj, "bondId", ""),
   paymentDate |-> Field(obj, "paymentDate", <<0, 0, 0>>),
   amount |-> Field(obj, "amount", 0),
   status |-> Field(obj, "status", ""),
   paidAt |-> Field(obj, "paidAt", ZeroTime),
   txId |-> Field(obj, "txId", ""),
   metadata |-> Field(obj, "metadata", NilMap)]

\* json.Unmarshal(bytes, &Redemption{})
DecodeRedemption(obj) ==
  [id |-> Field(obj, "id", ""),
   bondId |-> Field(obj, "bondId", ""),
   redemptionDate |-> Field(obj, "redemptionDate", <<0, 0, 0>>),
   amount |-> Field(obj, "amount", 0),
   status |-> Field(obj, "status", ""),
   completedAt |-> Field(obj, "completedAt", ZeroTime),
   txId |-> Field(obj, "txId", ""),
   metadata |-> Field(obj, "metadata", NilMap)]

GetCouponPayment(l, couponID) ==
  IF GetState(l, couponID) = Nil
  THEN [err |-> "coupon payment " \o couponID \o " does not exist", coupon |-> Nil]
  ELSE [err |-> "", coupon |-> DecodeCoupon(GetState(l, couponID))]

GetRedemption(l, redemptionID) ==
  IF GetState(l, redemptionID) = Nil
  THEN [err |-> "redemption " \o redemptionID \o " does not exist", redemption |-> Nil]
  ELSE [err |-> "", redemption |-> DecodeRedemption(GetState(l, redemptionID))]

CorporateActionEvent(type, bondID, details, amount, now, txID) ==
  [name |-> "CorporateActionEvent", type |-> type, bondId |-> bondID,
   details |-> details, amount |-> amount, timestamp |-> now, txId |-> txID]

---------------------------------------------------------------------------
(* CorporateAction.CreateCouponPayment, ProcessCouponPayment *)

CreateCouponPaymentOutcome(l, bondID, paymentDateStr, amount, now1, now2, txID) ==
  IF ~ParseDate(paymentDateStr).ok THEN Fail(l, "invalid payment date format")
  ELSE [err |-> "",
        ledger |-> PutState(l, CouponID(bondID, now1),
          [id |-> CouponID(bondID, now1), bondId |-> bondID,
           paymentDate |-> ParseDate(paymentDateStr).date, amount |-> amount,
           status |-> "PENDING", paidAt |-> ZeroTime, txId |-> "",
           metadata |-> EmptyMap]),
        event |-> CorporateActionEvent("COUPON_PAYMENT_CREATED", bondID,
                    "Coupon payment created for bond " \o bondID, amount,
                    now2, txID)]

ProcessCouponPaymentOutcomeUnguarded(l, couponID, now1, now2, txID) ==
  LET got == GetCouponPayment(l, couponID)
  IN IF got.err # "" THEN Fail(l, "failed to get coupon payment: " \o got.err)
     ELSE [err |-> "",
           ledger |-> PutState(l, couponID,
             [got.coupon EXCEPT !.status = "PAID", !.paidAt = now1,
                                !.txId = txID]),
           event |-> CorporateActionEvent("COUPON_PAYMENT_PROCESSED",
                       got.coupon.bondId,
                       "Coupon payment " \o couponID \o " processed",
                       got.coupon.amount, now2, txID)]

ProcessCouponPaymentOutcome(l, couponID, now1, now2, txID) ==
  LET got == GetCouponPayment(l, couponID)
  IN IF got.err # "" THEN Fail(l, "failed to get coupon payment: " \o got.err)
     ELSE IF got.coupon.status # "PENDING"
     THEN Fail(l, "coupon payment " \o couponID \o " is not pending")
     ELSE [err |-> "",
           ledger |-> PutState(l, couponID,
             [got.coupon EXCEPT !.status = "PAID", !.paidAt = now1,
                                !.txId = txID]),
           event |-> CorporateActionEvent("COUPON_PAYMENT_PROCESSED",
                       got.coupon.bondId,
                       "Coupon payment " \o couponID \o " processed",
                       got.coupon.amount, now2, txID)]

---------------------------------------------------------------------------
(* CorporateAction.CreateRedemption, ProcessRedemption *)

CreateRedemptionOutcome(l, bondID, redemptionDateStr, amount, now1, now2, txID) ==
  IF ~ParseDate(redemptionDateStr).ok THEN Fail(l, "invalid redemption date format")
  ELSE [err |-> "",
        ledger |-> PutState(l, RedemptionID(bondID, now1),
          [id |-> RedemptionID(bondID, now1), bondId |-> bondID,
           redemptionDate |-> ParseDate(redemptionDateStr).date,
           amount |-> amount, status |-> "PENDING",
           completedAt |-> ZeroTime, txId |-> "", metadata |-> EmptyMap]),
        event |-> CorporateActionEvent("REDEMPTION_CREATED", bondID,
                    "Redemption created for bond " \o bondID, amount,
                    now2, txID)]

ProcessRedemptionOutcome(l, redemptionID, now1, now2, txID) ==
  LET got == GetRedemption(l, redemptionID)
  IN IF got.err # "" THEN Fail(l, "failed to get redemption: " \o got.err)
     ELSE IF got.redemption.status # "PENDING"
     THEN Fail(l, "redemption " \o redemptionID \o " is not pending")
     ELSE [err |-> "",
           ledger |-> PutState(l, redemptionID,
             [got.redemption EXCEPT !.status = "COMPLETED",
                                    !.completedAt = now1, !.txId = txID]),
           event |-> CorporateActionEvent("REDEMPTION_PROCESSED",
                       got.redemption.bondId,
                       "Redemption " \o redemptionID \o " processed",
                       got.redemption.amount, now2, txID)]

---------------------------------------------------------------------------
(* CorporateAction: the transactions *)

CreateCouponPayment ==
  \E bondID \in CorpBondIDs, paymentDateStr \in PaymentDateStrs,
     amount \in Amounts, now1 \in Nows, now2 \in Nows, txID \in TxIDs :
    /\ now1.tick <= now2.tick
    /\ LET out == CreateCouponPaymentOutcome(ledger, bondID, paymentDateStr,
                                             amount, now1, now2, txID)
       IN /\ ledger' = out.ledger
          /\ last' = [op |-> "CreateCouponPayment",
                      args |-> [bondID |-> bondID, paymentDate |-> paymentDateStr,
                                amount |-> amount],
                      err |-> out.err, ret |-> 0, event |-> out.event,
                      id |-> CouponID(bondID, now1),
                      replaced |-> Replaced(ledger, CouponID(bondID, now1))]
    /\ UNCHANGED <<issuedSupply, version, transactions>>

ProcessCouponPayment ==
  \E couponID \in ActionIDs, now1 \in Nows, now2 \in Nows, txID \in TxIDs :
    /\ now1.tick <= now2.tick
    /\ LET out == ProcessCouponPaymentOutcome(ledger, couponID, now1, now2, txID)
       IN /\ ledger' = out.ledger
          /\ last' = CallRecord("ProcessCouponPayment",
                                [couponID |-> couponID], out)
    /\ UNCHANGED <<issuedSupply, version, transactions>>

CreateRedemption ==
  \E bondID \in CorpBondIDs, redemptionDateStr \in DateStrs,
     amount \in Amounts, now1 \in Nows, now2 \in Nows, txID \in TxIDs :
    /\ now1.tick <= now2.tick
    /\ LET out == CreateRedemptionOutcome(ledger, bondID, redemptionDateStr,
                                          amount, now1, now2, txID)
       IN /\ ledger' = out.ledger
          /\ last' = [op |-> "CreateRedemption",
                      args |-> [bondID |-> bondID,
                                redemptionDate |-> redemptionDateStr,
                                amount |-> amount],
                      err |-> out.err, ret |-> 0, event |-> out.event,
                      id |-> RedemptionID(bondID, now1),
                      replaced |-> Replaced(ledger, RedemptionID(bondID, now1))]
    /\ UNCHANGED <<issuedSupply, version, transactions>>

ProcessRedemption ==
  \E redemptionID \in ActionIDs, now1 \in Nows, now2 \in Nows, txID \in TxIDs :
    /\ now1.tick <= now2.tick
    /\ LET out == ProcessRedemptionOutcome(ledger, redemptionID, now1, now2, txID)
       IN /\ ledger' = out.ledger
          /\ last' = CallRecord("ProcessRedemption",
                                [redemptionID |-> redemptionID], out)
    /\ UNCHANGED <<issuedSupply, version, transactions>>

NextCorporate ==
  \/ CreateCouponPayment
  \/ ProcessCouponPayment
  \/ CreateRedemption
  \/ ProcessRedemption

SpecCorporate == Init /\ [][NextCorporate]_vars

---------------------------------------------------------------------------
(* CorporateAction: vocabulary of the properties *)

\* the identifiers CreateCouponPayment gives
CouponIDs == {CouponID(b, n) : b \in CorpBondIDs, n \in Nows}

\* the status of the record stored under an identifier ("" when there is none)
StoredStatus(l, id) == IF GetState(l, id) = Nil THEN "" ELSE GetState(l, id).status

---------------------------------------------------------------------------
\* C19: ProcessCouponPayment on a created coupon that is PENDING succeeds and
\* sets its status to PAID, keeping bond, date and amount; on a coupon whose
\* status is not PENDING it fails with the is-not-pending error, writes no
\* key and sets no event.
C19_OneShotCoupon ==
  [][(last'.op = "ProcessCouponPayment"
        /\ last'.args.couponID \in CouponIDs
        /\ GetState(ledger, last'.args.couponID) # Nil) =>
       LET id == last'.args.couponID
       IN IF StoredStatus(ledger, id) = "PENDING"
          THEN /\ last'.err = ""
               /\ StoredStatus(ledger', id) = "PAID"
               /\ GetState(ledger', id).bondId = GetState(ledger, id).bondId
               /\ GetState(ledger', id).amount = GetState(ledger, id).amount
               /\ GetState(ledger', id).paymentDate = DecodeCoupon(GetState(ledger, id)).paymentDate
          ELSE /\ last'.err = "coupon payment " \o id \o " is not pending"
               /\ ledger' = ledger
               /\ last'.event = NoEvent]_vars

\* a second ProcessCouponPayment of a PAID coupon was refused
C19_Witness ==
  /\ last.op = "ProcessCouponPayment"
  /\ last.args.couponID \in CouponIDs
  /\ last.err = "coupon payment " \o last.args.couponID \o " is not pending"
  /\ StoredStatus(ledger, last.args.couponID) = "PAID"

\* C20: PAID is terminal for coupon payments: a coupon identifier whose
\* record has status PAID has a record with status PAID after every step of
\* CreateCouponPayment, ProcessCouponPayment, CreateRedemption and
\* ProcessRedemption.
C20_PaidIsTerminal ==
  [][\A id \in CouponIDs :
       StoredStatus(ledger, id) = "PAID" => StoredStatus(ledger', id) = "PAID"]_vars

\* the identifiers CreateRedemption gives
RedemptionIDs == {RedemptionID(b, n) : b \in CorpBondIDs, n \in Nows}

\* C21: for every redemption identifier COMPLETED is final (so PENDING to
\* COMPLETED happens at most once), and ProcessRedemption on a redemption
\* whose status is not PENDING fails with the is-not-pending error and
\* leaves the ledger as it was.
C21_RedemptionLifecycle ==
  [][/\ \A id \in RedemptionIDs :
          StoredStatus(ledger, id) = "COMPLETED"
            => StoredStatus(ledger', id) = "COMPLETED"
     /\ (last'.op = "ProcessRedemption"
           /\ last'.args.redemptionID \in RedemptionIDs
           /\ GetState(ledger, last'.args.redemptionID) # Nil
           /\ StoredStatus(ledger, last'.args.redemptionID) # "PENDING")
          => /\ last'.err = "redemption " \o last'.args.redemptionID
                              \o " is not pending"
             /\ ledger' = ledger
             /\ last'.event = NoEvent]_vars

\* C22: a CreateCouponPayment or CreateRedemption call whose synthesized key
\* already holds a record fails and leaves the ledger (so that record's
\* status, amount and date) as it was.
C22_CreateOnce ==
  [][(last'.op \in {"CreateCouponPayment", "CreateRedemption"}
        /\ GetState(ledger, last'.id) # Nil)
       => /\ last'.err # ""
          /\ ledger' = ledger]_vars

\* C23: every record stored under a coupon identifier has a status in
\* {PENDING, PAID, FAILED} and every record stored under a redemption
\* identifier has a status in {PENDING, COMPLETED, FAILED}, also after a
\* Process operation was given an identifier of the other kind.
C23_StatusDomains ==
  /\ \A id \in CouponIDs :
       GetState(ledger, id) # Nil
         => StoredStatus(ledger, id) \in {"PENDING", "PAID", "FAILED"}
  /\ \A id \in RedemptionIDs :
       GetState(ledger, id) # Nil
         => StoredStatus(ledger, id) \in {"PENDING", "COMPLETED", "FAILED"}

---------------------------------------------------------------------------
(* The composite keys: holder keys and AML keys over identifiers that may  *)
(* themselves hold the delimiter                                           *)

\* addresses, and bond identifiers or check types, as the callers pass them
PairAddresses == {"a", "a_b"}
PairSeconds == {"C", "b_C"}

\* Transfer up to the read of the sender: the key it builds for (from, bondID)
SenderKeyOfTransfer ==
  \E from \in PairAddresses, bondID \in PairSeconds :
    /\ last' = [op |-> "Transfer.senderKey",
                args |-> [first |-> from, second |-> bondID],
                key |-> HolderKey(from, bondID),
                err |-> "", ret |-> 0, event |-> NoEvent]
    /\ UNCHANGED <<ledger, issuedSupply, version, transactions>>

CreateAMLCheckOfPair ==
  \E address \in PairAddresses, checkType \in PairSeconds,
     finding \in CreateFindings, t1 \in Times, t2 \in Times, txID \in TxIDs :
    /\ t1 <= t2
    /\ LET out == CreateAMLCheckOutcome(ledger, address, checkType, finding,
                                        t1, t2, txID)
       IN /\ ledger' = out.ledger
          /\ last' = [op |-> "CreateAMLCheck",
                      args |-> [first |-> address, second |-> checkType],
                      key |-> CheckKey(address, checkType),
                      err |-> out.err, ret |-> 0, event |-> out.event]
    /\ UNCHANGED <<issuedSupply, version, transactions>>

UpdateAMLCheckOfPair ==
  \E address \in PairAddresses, checkType \in PairSeconds,
     status \in AMLStatuses, finding \in UpdateFindings,
     t1 \in Times, t2 \in Times, txID \in TxIDs :
    /\ t1 <= t2
    /\ LET out == UpdateAMLCheckOutcome(ledger, address, checkType, status,
                                        finding, t1, t2, txID)
       IN /\ ledger' = out.ledger
          /\ last' = [op |-> "UpdateAMLCheck",
                      args |-> [first |-> address, second |-> checkType],
                      key |-> CheckKey(address, checkType),
                      err |-> out.err, ret |-> 0, event |-> out.event]
    /\ UNCHANGED <<issuedSupply, version, transactions>>

NextKeys ==
  \/ SenderKeyOfTransfer
  \/ CreateAMLCheckOfPair
  \/ UpdateAMLCheckOfPair

SpecKeys == Init /\ [][NextKeys]_vars

\* the AML check records, as (address, checkType, status), the ledger holds
AMLRecordsOf(l) ==
  {<<l[k].address, l[k].checkType, l[k].status>> :
     k \in {x \in DOMAIN l : IsAMLRecord(l[x])}}

\* C24: distinct (address, bondID) pairs give distinct holder keys and
\* distinct (address, checkType) pairs give distinct AML keys, so an AML
\* operation on one pair leaves the records of every other pair as they were.
C24_KeyInjective ==
  [][/\ (last.op = last'.op /\ last.args # last'.args) => last.key # last'.key
     /\ last'.op \in {"CreateAMLCheck", "UpdateAMLCheck"} =>
          \A r \in AMLRecordsOf(ledger) :
            <<r[1], r[2]>> # <<last'.args.first, last'.args.second>>
              => r \in AMLRecordsOf(ledger')]_vars

\* C25: no operation overwrites, or reads as its own, a record of another
\* entity kind: after every Compliance step a key that held a KYC record
\* still holds a KYC record and a key that held an AML check still holds an
\* AML check (CreateAMLCheck never overwrites a KYC record).
C25_KindOwnership ==
  [][\A k \in DOMAIN ledger :
       /\ IsKYCRecord(ledger[k]) => IsKYCRecord(GetState(ledger', k))
       /\ IsAMLRecord(ledger[k]) => IsAMLRecord(GetState(ledger', k))]_vars

---------------------------------------------------------------------------
(* BondToken.GetAllBonds and GetBondHolders: scans of the whole world state *)

\* a bond identifier of 21 characters
LongBondID == "BOND_2029_SERIES_A_01"
\* the bond identifiers of the scans; the third is also the holder key of
\* ("a", LongBondID)
ScanBondIDs == {"B", LongBondID, "a_" \o LongBondID}

\* key[len(key)-len(suffix):] == suffix, for len(suffix) <= len(key)
HasSuffix(key, suffix) ==
  \E prefix \in {""} \cup Addresses \cup ScanBondIDs : key = prefix \o suffix

\* GetStateByRange("", "") and the loop over its results
GetAllBondsResult(l) ==
  [err |-> "",
   ret |-> {DecodeBond(l[k]) :
              k \in {x \in DOMAIN l : Len(x) < 20 /\ DecodeBond(l[x]).id # ""}}]

\* the slice expression panics when the bondID is not shorter than the key
GetBondHoldersResult(l, bondID) ==
  IF \E k \in DOMAIN l : Len(k) > 20 /\ Len(k) - Len(bondID) - 1 < 0
  THEN [err |-> "panic: runtime error: slice bounds out of range", ret |-> {}]
  ELSE [err |-> "",
        ret |-> {DecodeTokenHolder(l[k]) :
                   k \in {x \in DOMAIN l :
                            /\ Len(x) > 20
                            /\ HasSuffix(x, "_" \o bondID)
                            /\ DecodeTokenHolder(l[x]).bondId = bondID}}]

IssueBondOfScan ==
  \E bondID \in ScanBondIDs, issuerID \in Addresses, terms \in TermsSet,
     totalSupply \in SupplyValues, maturityDateStr \in DateStrs,
     t1 \in Times, t2 \in Times, txID \in TxIDs :
    /\ t1 <= t2
    /\ LET out == IssueBondOutcome(ledger, bondID, issuerID, terms,
                                   totalSupply, maturityDateStr, t1, t2, txID)
       IN /\ ledger' = out.ledger
          /\ last' = [op |-> "IssueBond",
                      args |-> [bondID |-> bondID, issuerID |-> issuerID,
                                totalSupply |-> totalSupply,
                                maturityDate |-> maturityDateStr],
                      err |-> out.err, ret |-> 0, event |-> out.event]
          /\ issuedSupply' =
               IF out.err = "" /\ bondID \notin DOMAIN issuedSupply
               THEN PutState(issuedSupply, bondID, totalSupply)
               ELSE issuedSupply
          /\ UNCHANGED <<version, transactions>>

GetAllBonds ==
  LET out == GetAllBondsResult(ledger)
  IN /\ last' = [op |-> "GetAllBonds", args |-> [none |-> TRUE],
                 err |-> out.err, ret |-> out.ret, event |-> NoEvent]
     /\ UNCHANGED <<ledger, issuedSupply, version, transactions>>

GetBondHolders ==
  \E bondID \in ScanBondIDs :
    LET out == GetBondHoldersResult(ledger, bondID)
    IN /\ last' = [op |-> "GetBondHolders", args |-> [bondID |-> bondID],
                   err |-> out.err, ret |-> out.ret, event |-> NoEvent]
       /\ UNCHANGED <<ledger, issuedSupply, version, transactions>>

NextScans ==
  \/ IssueBondOfScan
  \/ GetAllBonds
  \/ GetBondHolders

SpecScans == Init /\ [][NextScans]_vars

\* C26: GetAllBonds returns exactly the Bond records stored: every bond a
\* successful IssueBond created, whatever the length of its bondID, and no
\* other record.
C26_GetAllBonds ==
  last.op = "GetAllBonds" =>
    /\ last.err = ""
    /\ last.ret = {DecodeBond(ledger[k]) :
                     k \in {x \in DOMAIN ledger : IsBondRecord(ledger[x])}}

\* C27: GetBondHolders(bondID) does not fail for any bondID and returns
\* exactly the TokenHolder records of that bond.
C27_GetBondHolders ==
  last.op = "GetBondHolders" =>
    /\ last.err = ""
    /\ last.ret = {DecodeTokenHolder(ledger[k]) :
                     k \in HolderKeysOf(ledger, last.args.bondID)}

---------------------------------------------------------------------------
(* Compliance.GetAllKYC and GetAllAMLChecks: range scans in key order *)

\* the bytes of the identifiers the Compliance transactions are given
Spelling ==
  [s \in KYCAddresses \cup AMLAddresses \cup CheckTypes |->
     CASE s = "a" -> <<97>>
       [] s = "a_PEP" -> <<97, 95, 80, 69, 80>>
       [] s = "PEP" -> <<80, 69, 80>>
       [] s = "SANCTIONS" -> <<83, 65, 78, 67, 84, 73, 79, 78, 83>>
       [] s = "ADVERSE_MEDIA" -> <<65, 68, 86, 69, 82, 83, 69, 95, 77, 69, 68, 73, 65>>]

\* the bytes of "_"
Underscore == <<95>>

\* the bytes of a ledger key: an address, or an address, "_" and a check type
BytesOfKey(key) ==
  IF key \in KYCAddresses THEN Spelling[key]
  ELSE LET pair == CHOOSE p \in AMLAddresses \X CheckTypes :
                     CheckKey(p[1], p[2]) = key
       IN Spelling[pair[1]] \o Underscore \o Spelling[pair[2]]

\* x < y in the lexicographic order of byte strings
RECURSIVE LexLess(_, _)
LexLess(x, y) ==
  IF y = <<>> THEN FALSE
  ELSE IF x = <<>> THEN TRUE
  ELSE IF Head(x) # Head(y) THEN Head(x) < Head(y)
  ELSE LexLess(Tail(x), Tail(y))

\* the keys GetStateByRange(startKey, endKey) iterates over: startKey <= k
\* and k < endKey, an empty endKey being no bound
KeysInRange(l, startKey, endKey) ==
  {k \in DOMAIN l :
     /\ ~LexLess(BytesOfKey(k), startKey)
     /\ endKey = <<>> \/ LexLess(BytesOfKey(k), endKey)}

\* the keys of a set in the order the iterator gives them
RECURSIVE InKeyOrder(_)
InKeyOrder(keys) ==
  IF keys = {} THEN <<>>
  ELSE LET first == CHOOSE k \in keys :
                      \A other \in keys \ {k} :
                        LexLess(BytesOfKey(k), BytesOfKey(other))
       IN <<first>> \o InKeyOrder(keys \ {first})

\* contains(s, substr): s is substr or starts with it
contains(s, substr) ==
  /\ Len(s) >= Len(substr)
  /\ \/ s = substr
     \/ Len(s) > Len(substr) /\ SubSeq(s, 1, Len(substr)) = substr

GetAllKYCResult(l) ==
  LET Keep(k) == ~contains(BytesOfKey(k), Underscore) /\ DecodeKYC(l[k]).address # ""
      kept == SelectSeq(InKeyOrder(KeysInRange(l, <<>>, <<>>)), Keep)
  IN [err |-> "", ret |-> [i \in DOMAIN kept |-> DecodeKYC(l[kept[i]])]]

GetAllAMLChecksResult(l, address) ==
  LET startKey == Spelling[address] \o Underscore
      endKey == Spelling[address] \o Underscore \o <<0>>
      Keep(k) == DecodeAML(l[k]).address = address
      kept == SelectSeq(InKeyOrder(KeysInRange(l, startKey, endKey)), Keep)
  IN [err |-> "", ret |-> [i \in DOMAIN kept |-> DecodeAML(l[kept[i]])]]

GetAllKYC ==
  LET out == GetAllKYCResult(ledger)
  IN /\ last' = [op |-> "GetAllKYC", args |-> [none |-> TRUE],
                 err |-> out.err, ret |-> out.ret, event |-> NoEvent]
     /\ UNCHANGED <<ledger, issuedSupply, version, transactions>>

GetAllAMLChecks ==
  \E address \in AMLAddresses :
    LET out == GetAllAMLChecksResult(ledger, address)
    IN /\ last' = [op |-> "GetAllAMLChecks", args |-> [address |-> address],
                   err |-> out.err, ret |-> out.ret, event |-> NoEvent]
       /\ UNCHANGED <<ledger, issuedSupply, version, transactions>>

NextComplianceScans ==
  \/ CreateKYC
  \/ ApproveKYC
  \/ CreateAMLCheck
  \/ UpdateAMLCheck
  \/ GetAllKYC
  \/ GetAllAMLChecks

SpecComplianceScans == Init /\ [][NextComplianceScans]_vars

\* the values of a sequence
Range(seq) == {seq[i] : i \in DOMAIN seq}

\* C28: GetAllKYC returns one entry for each stored KYC record and nothing
\* else: no AML check is returned as a KYC record.
C28_GetAllKYC ==
  last.op = "GetAllKYC" =>
    /\ last.err = ""
    /\ Len(last.ret) = Cardinality({k \in DOMAIN ledger : IsKYCRecord(ledger[k])})
    /\ Range(last.ret) =
         {DecodeKYC(ledger[k]) : k \in {x \in DOMAIN ledger : IsKYCRecord(ledger[x])}}

\* C29: GetAllAMLChecks(address) returns every AML check stored for the
\* address, one for each check type created, and no record of another
\* address.
C29_GetAllAMLChecks ==
  last.op = "GetAllAMLChecks" =>
    /\ last.err = ""
    /\ Range(last.ret) =
         {DecodeAML(ledger[k]) :
            k \in {x \in DOMAIN ledger :
                     /\ IsAMLRecord(ledger[x])
                     /\ ledger[x].address = last.args.address}}

---------------------------------------------------------------------------
(* CorporateAction.GetPendingCouponPayments: a scan of the whole state *)

\* the bytes of "COUPON_" and of "REDEMPTION_"
CouponPrefix == <<67, 79, 85, 80, 79, 78, 95>>
RedemptionPrefix == <<82, 69, 68, 69, 77, 80, 84, 73, 79, 78, 95>>

\* the bytes of the bond identifiers
BondIDSpelling == [b \in CorpBondIDs |-> IF b = "B" THEN <<66>> ELSE <<67>>]

\* the decimal digits of n as bytes, in the given width
DigitBytes(n, width) ==
  [i \in 1..width |-> 48 + ((n \div (10 ^ (width - i))) % 10)]

\* the bytes of time.Now().Format("20060102")
DayBytes(now) ==
  DigitBytes(now.date[1], 4) \o DigitBytes(now.date[2], 2) \o DigitBytes(now.date[3], 2)

\* the bytes of a ledger key of the CorporateAction chaincode
BytesOfActionKey(key) ==
  LET made == CHOOSE p \in CorpBondIDs \X Nows :
                CouponID(p[1], p[2]) = key \/ RedemptionID(p[1], p[2]) = key
  IN (IF CouponID(made[1], made[2]) = key THEN CouponPrefix ELSE RedemptionPrefix)
       \o BondIDSpelling[made[1]] \o Underscore \o DayBytes(made[2])

\* the keys of a set in the order the iterator gives them
RECURSIVE InActionKeyOrder(_)
InActionKeyOrder(keys) ==
  IF keys = {} THEN <<>>
  ELSE LET first == CHOOSE k \in keys :
                      \A other \in keys \ {k} :
                        LexLess(BytesOfActionKey(k), BytesOfActionKey(other))
       IN <<first>> \o InActionKeyOrder(keys \ {first})

GetPendingCouponPaymentsResult(l) ==
  LET Keep(k) == /\ Len(BytesOfActionKey(k)) > 8
                 /\ SubSeq(BytesOfActionKey(k), 1, 8) = CouponPrefix
                 /\ DecodeCoupon(l[k]).status = "PENDING"
      kept == SelectSeq(InActionKeyOrder(DOMAIN l), Keep)
  IN [err |-> "", ret |-> [i \in DOMAIN kept |-> DecodeCoupon(l[kept[i]])]]

GetPendingCouponPayments ==
  LET out == GetPendingCouponPaymentsResult(ledger)
  IN /\ last' = [op |-> "GetPendingCouponPayments", args |-> [none |-> TRUE],
                 err |-> out.err, ret |-> out.ret, event |-> NoEvent]
     /\ UNCHANGED <<ledger, issuedSupply, version, transactions>>

NextCorporateScans ==
  \/ CreateCouponPayment
  \/ ProcessCouponPayment
  \/ CreateRedemption
  \/ ProcessRedemption
  \/ GetPendingCouponPayments

SpecCorporateScans == Init /\ [][NextCorporateScans]_vars

\* C30: GetPendingCouponPayments returns exactly the stored coupon payments
\* whose status is PENDING: every coupon created and not yet processed, no
\* PAID coupon and no other record.
C30_GetPendingCouponPayments ==
  last.op = "GetPendingCouponPayments" =>
    /\ last.err = ""
    /\ Range(last.ret) =
         {DecodeCoupon(ledger[k]) :
            k \in {x \in DOMAIN ledger \cap CouponIDs :
                     StoredStatus(ledger, x) = "PENDING"}}

---------------------------------------------------------------------------
(* CorporateAction.GetCouponPaymentsByBond, GetRedemptionsByBond *)

\* the helper contains of the CorporateAction chaincode, on the bytes of its
\* arguments: true when s is substr or begins with substr
containsOfCorporateAction(s, substr) ==
  /\ Len(s) >= Len(substr)
  /\ \/ s = substr
     \/ Len(s) > Len(substr) /\ SubSeq(s, 1, Len(substr)) = substr

GetCouponPaymentsByBondResult(l, bondID) ==
  LET Keep(k) == /\ Len(BytesOfActionKey(k)) > 8
                 /\ SubSeq(BytesOfActionKey(k), 1, 8) = CouponPrefix
                 /\ containsOfCorporateAction(BytesOfActionKey(k),
                                              BondIDSpelling[bondID])
                 /\ DecodeCoupon(l[k]).bondId = bondID
      kept == SelectSeq(InActionKeyOrder(DOMAIN l), Keep)
  IN [err |-> "", ret |-> [i \in DOMAIN kept |-> DecodeCoupon(l[kept[i]])]]

GetRedemptionsByBondResult(l, bondID) ==
  LET Keep(k) == /\ Len(BytesOfActionKey(k)) > 11
                 /\ SubSeq(BytesOfActionKey(k), 1, 11) = RedemptionPrefix
                 /\ containsOfCorporateAction(BytesOfActionKey(k),
                                              BondIDSpelling[bondID])
                 /\ DecodeRedemption(l[k]).bondId = bondID
      kept == SelectSeq(InActionKeyOrder(DOMAIN l), Keep)
  IN [err |-> "", ret |-> [i \in DOMAIN kept |-> DecodeRedemption(l[kept[i]])]]

GetCouponPaymentsByBond ==
  \E bondID \in CorpBondIDs :
    LET out == GetCouponPaymentsByBondResult(ledger, bondID)
    IN /\ last' = [op |-> "GetCouponPaymentsByBond",
                   args |-> [bondID |-> bondID],
                   err |-> out.err, ret |-> out.ret, event |-> NoEvent]
       /\ UNCHANGED <<ledger, issuedSupply, version, transactions>>

GetRedemptionsByBond ==
  \E bondID \in CorpBondIDs :
    LET out == GetRedemptionsByBondResult(ledger, bondID)
    IN /\ last' = [op |-> "GetRedemptionsByBond",
                   args |-> [bondID |-> bondID],
                   err |-> out.err, ret |-> out.ret, event |-> NoEvent]
       /\ UNCHANGED <<ledger, issuedSupply, version, transactions>>

NextCorporateByBond ==
  \/ CreateCouponPayment
  \/ ProcessCouponPayment
  \/ CreateRedemption
  \/ ProcessRedemption
  \/ GetCouponPaymentsByBond
  \/ GetRedemptionsByBond

SpecCorporateByBond == Init /\ [][NextCorporateByBond]_vars

\* the stored records of a kind whose bondId field is the given bond
CouponsOfBond(l, bondID) ==
  {DecodeCoupon(l[k]) :
     k \in {x \in DOMAIN l \cap CouponIDs : Field(l[x], "bondId", "") = bondID}}

RedemptionsOfBond(l, bondID) ==
  {DecodeRedemption(l[k]) :
     k \in {x \in DOMAIN l \cap RedemptionIDs : Field(l[x], "bondId", "") = bondID}}

\* C31: GetCouponPaymentsByBond(bondID) and GetRedemptionsByBond(bondID)
\* return exactly the stored coupon payments / redemptions whose bondId field
\* is the argument: every such record the Create operations stored, and none
\* of another bond.
C31_ByBond ==
  /\ last.op = "GetCouponPaymentsByBond" =>
       /\ last.err = ""
       /\ Range(last.ret) = CouponsOfBond(ledger, last.args.bondID)
  /\ last.op = "GetRedemptionsByBond" =>
       /\ last.err = ""
       /\ Range(last.ret) = RedemptionsOfBond(ledger, last.args.bondID)

---------------------------------------------------------------------------
(* World states that hold TokenHolder records *)

\* IssueBond stores no TokenHolder record and Transfer needs the sender's, so
\* no world state reached from the empty one has any.  The transfers below
\* start from world states that have them: bond "B" is issued with a
\* totalSupply of 2, and the records of its holders carry the 2 between them.
HeldBond == "B"

HolderRecord(address, bondID, quantity) ==
  [address |-> address, bondId |-> bondID, quantity |-> quantity,
   lastUpdated |-> 1, metadata |-> "{}"]

\* the world state with bond "B" issued by a and the given holdings
HoldingsOf(quantityOf) ==
  LET issued == IssueBondWrites(EmptyLedger, HeldBond, "a",
                                CHOOSE t \in TermsSet : TRUE, 2,
                                <<2029, 1, 1>>, 1)
  IN [k \in DOMAIN issued \cup {HolderKey(a, HeldBond) : a \in DOMAIN quantityOf} |->
        IF k \in DOMAIN issued THEN issued[k]
        ELSE LET a == CHOOSE x \in DOMAIN quantityOf : HolderKey(x, HeldBond) = k
             IN HolderRecord(a, HeldBond, quantityOf[a])]

Holdings ==
  { HoldingsOf([x \in {"a"} |-> 2]),
    HoldingsOf([x \in {"a", "b"} |-> 1]),
    HoldingsOf([x \in {"b"} |-> 2]) }

---------------------------------------------------------------------------
(* Transactions simulated and validated apart: the ledger substrate's       *)
(* optimistic concurrency control.  A handler is simulated against the      *)
(* committed world state and, when it returns no error, is submitted with   *)
(* the versions of the keys it read and the values it wrote; at commit it   *)
(* is valid, and its writes are applied, only if every key it read still    *)
(* has the version it read.                                                 *)

\* a transaction identifier is used once
ConcurrentTxIDs == {"tx1", "tx2", "tx3"}

UsedTxIDs == {t.txID : t \in transactions}

\* the version of a key: the number of committed writes of it, 0 when absent
VersionOf(ver, key) == IF key \in DOMAIN ver THEN ver[key] ELSE 0

\* the transaction a successful simulation submits; base and at are the
\* committed state it was simulated against and the versions of that state
Endorsed(op, args, txID, l, ver, readKeys, writeKeys, out) ==
  [op |-> op, args |-> args, txID |-> txID, base |-> l, at |-> ver,
   reads |-> [k \in readKeys |-> VersionOf(ver, k)],
   writes |-> [k \in writeKeys |-> out.ledger[k]],
   wrote |-> EmptyLedger, state |-> "endorsed"]

\* no key of the read set was written since it was read
ReadSetCurrent(t, ver) ==
  \A k \in DOMAIN t.reads : VersionOf(ver, k) = t.reads[k]

ApplyWrites(l, writes) ==
  [k \in DOMAIN l \cup DOMAIN writes |->
     IF k \in DOMAIN writes THEN writes[k] ELSE l[k]]

BumpVersions(ver, keys) ==
  [k \in DOMAIN ver \cup keys |->
     IF k \in keys THEN VersionOf(ver, k) + 1 ELSE ver[k]]

\* validation and commit of one submitted transaction, in any order
Commit ==
  \E t \in transactions :
    /\ t.state = "endorsed"
    /\ LET valid == ReadSetCurrent(t, version)
           ver == IF valid THEN BumpVersions(version, DOMAIN t.writes) ELSE version
           done == [t EXCEPT !.state = IF valid THEN "valid" ELSE "invalid",
                             !.wrote = IF valid
                                       THEN [k \in DOMAIN t.writes |-> ver[k]]
                                       ELSE EmptyLedger]
       IN /\ ledger' = IF valid THEN ApplyWrites(ledger, t.writes) ELSE ledger
          /\ version' = ver
          /\ transactions' = (transactions \ {t}) \cup {done}
          /\ last' = [op |-> "Commit", args |-> [txID |-> t.txID],
                      err |-> IF valid THEN "" ELSE "MVCC_READ_CONFLICT",
                      ret |-> 0, event |-> NoEvent]
    /\ UNCHANGED issuedSupply

\* what a simulation leaves: a failed one is answered to the caller and is
\* not submitted
Simulated(op, args, txID, readKeys, writeKeys, out) ==
  /\ txID \notin UsedTxIDs
  /\ transactions' =
       IF out.err # "" THEN transactions
       ELSE transactions \cup
              {Endorsed(op, args, txID, ledger, version, readKeys, writeKeys, out)}
  /\ last' = [op |-> op, args |-> args, err |-> out.err, ret |-> 0,
              event |-> out.event]
  /\ UNCHANGED <<ledger, version, issuedSupply>>

---------------------------------------------------------------------------
(* Concurrent transfers of one bond *)

HolderAddresses == {"a", "b", "c"}

\* TransferReadKeys of a Transfer that takes the sender's balance from
\* elsewhere than the world state
TransferReadKeysNoSender(from, to, bondID) ==
  {bondID, HolderKey(to, bondID)} \ {HolderKey(from, bondID)}

\* the keys Transfer reads (BondExists, the two GetTokenHolder calls)
TransferReadKeys(from, to, bondID) ==
  {bondID, HolderKey(from, bondID), HolderKey(to, bondID)}

\* the keys Transfer writes (the two PutState calls)
TransferWriteKeys(from, to, bondID) ==
  {HolderKey(from, bondID), HolderKey(to, bondID)}

SimulateTransfer ==
  \E from \in HolderAddresses, to \in HolderAddresses, txID \in ConcurrentTxIDs :
    Simulated("Transfer",
              [from |-> from, to |-> to, bondID |-> HeldBond, quantity |-> 1],
              txID,
              TransferReadKeys(from, to, HeldBond),
              TransferWriteKeys(from, to, HeldBond),
              TransferOutcome(ledger, from, to, HeldBond, 1, 1, 1, 1, txID))

InitHoldings ==
  /\ ledger \in Holdings
  /\ issuedSupply = [b \in {HeldBond} |-> 2]
  /\ version = [k \in DOMAIN ledger |-> 1]
  /\ transactions = {}
  /\ last = [op |-> "Init", args |-> [none |-> TRUE], err |-> "", ret |-> 0,
             event |-> NoEvent]

NextConcurrentTransfer ==
  \/ SimulateTransfer
  \/ Commit

SpecConcurrentTransfer == InitHoldings /\ [][NextConcurrentTransfer]_vars

\* two transfers of the set debit the same sender of the same bond and were
\* simulated against the same committed state
SameSenderSameState(p, q) ==
  /\ p # q
  /\ p.op = "Transfer" /\ q.op = "Transfer"
  /\ p.args.from = q.args.from
  /\ p.args.bondID = q.args.bondID
  /\ p.base = q.base /\ p.at = q.at

Overdrawing(p, q) ==
  p.args.quantity + q.args.quantity
    > BalanceOf(p.base, p.args.from, p.args.bondID)

---------------------------------------------------------------------------
(* Two replicas executing one transaction, each with its own clock *)

\* the readings of the replicas' clocks: the same instant is not assured, and
\* around midnight not the same day
ReplicaNows ==
  { [date |-> <<2029, 1, 1>>, tick |-> 1],
    [date |-> <<2029, 1, 2>>, tick |-> 2] }

ReplicaBondIDs == {"B"}

ReplicaActionIDs ==
  {CouponID(b, n) : b \in ReplicaBondIDs, n \in ReplicaNows}
    \cup {RedemptionID(b, n) : b \in ReplicaBondIDs, n \in ReplicaNows}

\* the write set of an execution: nothing when the handler returned an error
WriteSet(out, keys) ==
  IF out.err # "" THEN EmptyLedger ELSE [k \in keys |-> out.ledger[k]]

\* both replicas executed the transaction against the committed state; the
\* state goes on with the result of either
Replicated(op, args, out1, keys1, out2, keys2) ==
  /\ ledger' \in {out1.ledger, out2.ledger}
  /\ last' = [op |-> op, args |-> args, err |-> out1.err, ret |-> 0,
              event |-> out1.event,
              writes |-> <<WriteSet(out1, keys1), WriteSet(out2, keys2)>>]
  /\ UNCHANGED <<issuedSupply, version, transactions>>

ReplicasCreateCouponPayment ==
  \E bondID \in ReplicaBondIDs, paymentDateStr \in DateStrs,
     amount \in Amounts, txID \in TxIDs,
     r1 \in ReplicaNows, r2 \in ReplicaNows :
    Replicated("CreateCouponPayment",
               [bondID |-> bondID, paymentDate |-> paymentDateStr,
                amount |-> amount, txID |-> txID],
               CreateCouponPaymentOutcome(ledger, bondID, paymentDateStr,
                                          amount, r1, r1, txID),
               {CouponID(bondID, r1)},
               CreateCouponPaymentOutcome(ledger, bondID, paymentDateStr,
                                          amount, r2, r2, txID),
               {CouponID(bondID, r2)})

ReplicasProcessCouponPayment ==
  \E couponID \in ReplicaActionIDs, txID \in TxIDs,
     r1 \in ReplicaNows, r2 \in ReplicaNows :
    Replicated("ProcessCouponPayment", [couponID |-> couponID, txID |-> txID],
               ProcessCouponPaymentOutcome(ledger, couponID, r1, r1, txID),
               {couponID},
               ProcessCouponPaymentOutcome(ledger, couponID, r2, r2, txID),
               {couponID})

ReplicasCreateRedemption ==
  \E bondID \in ReplicaBondIDs, redemptionDateStr \in DateStrs,
     amount \in Amounts, txID \in TxIDs,
     r1 \in ReplicaNows, r2 \in ReplicaNows :
    Replicated("CreateRedemption",
               [bondID |-> bondID, redemptionDate |-> redemptionDateStr,
                amount |-> amount, txID |-> txID],
               CreateRedemptionOutcome(ledger, bondID, redemptionDateStr,
                                       amount, r1, r1, txID),
               {RedemptionID(bondID, r1)},
               CreateRedemptionOutcome(ledger, bondID, redemptionDateStr,
                                       amount, r2, r2, txID),
               {RedemptionID(bondID, r2)})

ReplicasProcessRedemption ==
  \E redemptionID \in ReplicaActionIDs, txID \in TxIDs,
     r1 \in ReplicaNows, r2 \in ReplicaNows :
    Replicated("ProcessRedemption",
               [redemptionID |-> redemptionID, txID |-> txID],
               ProcessRedemptionOutcome(ledger, redemptionID, r1, r1, txID),
               {redemptionID},
               ProcessRedemptionOutcome(ledger, redemptionID, r2, r2, txID),
               {redemptionID})

NextReplicas ==
  \/ ReplicasCreateCouponPayment
  \/ ReplicasProcessCouponPayment
  \/ ReplicasCreateRedemption
  \/ ReplicasProcessRedemption

SpecReplicas == Init /\ [][NextReplicas]_vars

\* C33: two replicas that execute the same transaction (operation,
\* arguments, transaction identifier) against the same world state compute
\* the same written keys with the same values, whatever their clocks read.
C33_ReplicaDeterminism ==
  "writes" \in DOMAIN last => last.writes[1] = last.writes[2]

---------------------------------------------------------------------------
(* CorporateAction.CalculateCouponAmount *)

\* a float64 argument or result is the fraction it stands for, in lowest
\* terms with a positive denominator (the values used here are few-digit
\* decimals, which the arithmetic below treats exactly)
RECURSIVE GCD(_, _)
GCD(x, y) == IF y = 0 THEN x ELSE GCD(y, x % y)

Abs(x) == IF x < 0 THEN -x ELSE x

Float(num, den) ==
  LET g == GCD(Abs(num), den)
  IN IF num = 0 THEN [num |-> 0, den |-> 1]
     ELSE [num |-> num \div g, den |-> den \div g]

FloatMul(x, y) == Float(x.num * y.num, x.den * y.den)

\* division by a positive whole number
FloatDivInt(x, n) == Float(x.num, x.den * n)

FaceValues == {Float(0, 1), Float(1000, 1), Float(5000, 1), Float(1, 2)}
CouponRates == {Float(0, 1), Float(5, 1), Float(7, 2), Float(-5, 1)}

\* CalculateCouponAmount dividing by 1000
CalculateCouponAmountResultPerMille(bondID, faceValue, couponRate) ==
  [ret |-> FloatDivInt(FloatMul(faceValue, couponRate), 1000), err |-> ""]

\* couponAmount := (faceValue * couponRate) / 100; the error is always nil
CalculateCouponAmountResult(bondID, faceValue, couponRate) ==
  [ret |-> FloatDivInt(FloatMul(faceValue, couponRate), 100), err |-> ""]

CalculateCouponAmount ==
  \E bondID \in CorpBondIDs, faceValue \in FaceValues, couponRate \in CouponRates :
    LET out == CalculateCouponAmountResult(bondID, faceValue, couponRate)
    IN /\ last' = [op |-> "CalculateCouponAmount",
                   args |-> [bondID |-> bondID, faceValue |-> faceValue,
                             couponRate |-> couponRate],
                   err |-> out.err, couponAmount |-> out.ret,
                   event |-> NoEvent]
       /\ UNCHANGED <<ledger, issuedSupply, version, transactions>>

NextCalculate ==
  \/ CreateCouponPayment
  \/ ProcessCouponPayment
  \/ CalculateCouponAmount

SpecCalculate == Init /\ [][NextCalculate]_vars

\* C34: CalculateCouponAmount(faceValue, couponRate) returns faceValue *
\* couponRate / 100 and no error for every input, whatever the ledger holds,
\* and leaves the ledger as it was.
C34_CalculateCouponAmount ==
  [][ last'.op = "CalculateCouponAmount" =>
        /\ last'.err = ""
        /\ last'.couponAmount.den > 0
        /\ last'.couponAmount.num * 100 * last'.args.faceValue.den
             * last'.args.couponRate.den
             = last'.args.faceValue.num * last'.args.couponRate.num
                 * last'.couponAmount.den
        /\ ledger' = ledger
    ]_vars

\* C34 witness: with coupon payments stored, (1000, 5) gave 50 and
\* (5000, 3.5) gave 175.
C34_Witness ==
  /\ last.op = "CalculateCouponAmount"
  /\ DOMAIN ledger # {}
  /\ \/ /\ last.args.faceValue = Float(1000, 1)
        /\ last.args.couponRate = Float(5, 1)
        /\ last.couponAmount = Float(50, 1)
     \/ /\ last.args.faceValue = Float(5000, 1)
        /\ last.args.couponRate = Float(7, 2)
        /\ last.couponAmount = Float(175, 1)

---------------------------------------------------------------------------
(* The bond ledger, from world states that hold TokenHolder records *)

\* Transfer of one unit
TransferOfHoldings ==
  \E from \in Addresses, to \in Addresses, bondID \in BondIDs, txID \in TxIDs :
    LET out == TransferOutcome(ledger, from, to, bondID, 1, 1, 1, 1, txID)
    IN /\ ledger' = out.ledger
       /\ last' = [op |-> "Transfer",
                   args |-> [from |-> from, to |-> to, bondID |-> bondID,
                             quantity |-> 1],
                   err |-> out.err, ret |-> 0, event |-> out.event]
       /\ UNCHANGED <<issuedSupply, version, transactions>>

NextHoldings ==
  \/ IssueBond
  \/ TransferOfHoldings

SpecHoldings == InitHoldings /\ [][NextHoldings]_vars

\* the sum of the balances of a bond: of the quantities of its TokenHolder
\* records
SumOfBalances(l, bondID) == SumQuantities(l, HolderKeysOf(l, bondID))

---------------------------------------------------------------------------
\* the stored records of the kind and the bond of a create call whose date
\* is another than the call's
EarlierWithOtherDate(l, call) ==
  {k \in DOMAIN l :
     /\ Field(l[k], "bondId", "") = call.args.bondID
     /\ \/ /\ call.op = "CreateCouponPayment"
           /\ k \in CouponIDs
           /\ Field(l[k], "paymentDate", <<0, 0, 0>>)
                # ParseDate(call.args.paymentDate).date
        \/ /\ call.op = "CreateRedemption"
           /\ k \in RedemptionIDs
           /\ Field(l[k], "redemptionDate", <<0, 0, 0>>)
                # ParseDate(call.args.redemptionDate).date}

\* C36: distinct corporate actions get distinct records: a successful
\* CreateCouponPayment (CreateRedemption) for a bond that has a stored coupon
\* payment (redemption) of another payment date gets another identifier, and
\* the earlier record stays retrievable with its own date and amount.
C36_DistinctRecords ==
  [][ ( /\ last'.op \in {"CreateCouponPayment", "CreateRedemption"}
        /\ last'.err = "" )
      => \A k \in EarlierWithOtherDate(ledger, last') :
           /\ last'.id # k
           /\ k \in DOMAIN ledger'
           /\ \/ /\ last'.op = "CreateCouponPayment"
                 /\ GetCouponPayment(ledger', k).coupon.paymentDate
                      = ledger[k].paymentDate
                 /\ GetCouponPayment(ledger', k).coupon.amount = ledger[k].amount
              \/ /\ last'.op = "CreateRedemption"
                 /\ GetRedemption(ledger', k).redemption.redemptionDate
                      = ledger[k].redemptionDate
                 /\ GetRedemption(ledger', k).redemption.amount = ledger[k].amount
    ]_vars

---------------------------------------------------------------------------
---------------------------------------------------------------------------
\* the transaction a Commit step decided
Decided(call) == CHOOSE t \in transactions : t.txID = call.args.txID

\* the change of an address's balance of the held bond in a step
BalanceChange(a) ==
  BalanceOf(ledger', a, HeldBond) - BalanceOf(ledger, a, HeldBond)

---------------------------------------------------------------------------
(* Concurrent corporate actions *)

\* transaction identifiers in the order the simulations take them
IssuedTxIDs == <<"tx1", "tx2", "tx3", "tx4">>

\* the identifier of the next simulation; none is left after the last
HasNextTxID == \E i \in DOMAIN IssuedTxIDs : IssuedTxIDs[i] \notin UsedTxIDs

NextTxID ==
  IssuedTxIDs[CHOOSE i \in DOMAIN IssuedTxIDs :
                /\ IssuedTxIDs[i] \notin UsedTxIDs
                /\ \A j \in 1..(i - 1) : IssuedTxIDs[j] \in UsedTxIDs]

ConcurrentBondIDs == {"B"}

ConcurrentActionIDs ==
  {CouponID(b, n) : b \in ConcurrentBondIDs, n \in Nows}
    \cup {RedemptionID(b, n) : b \in ConcurrentBondIDs, n \in Nows}

\* the Create operations read no key and write the record's
CreateReadKeys(id) == {}

\* ProcessReadKeys of a handler that does not go through the world state
ProcessReadKeysNone(id) == {}

\* the Process operations read the record (GetCouponPayment, GetRedemption)
\* and write it back
ProcessReadKeys(id) == {id}

SimulateCreateCouponPayment ==
  \E bondID \in ConcurrentBondIDs, paymentDateStr \in DateStrs,
     amount \in Amounts, now \in Nows :
    /\ HasNextTxID
    /\ Simulated("CreateCouponPayment",
                 [bondID |-> bondID, paymentDate |-> paymentDateStr,
                  amount |-> amount],
                 NextTxID, CreateReadKeys(CouponID(bondID, now)),
                 {CouponID(bondID, now)},
                 CreateCouponPaymentOutcome(ledger, bondID, paymentDateStr,
                                            amount, now, now, NextTxID))

SimulateCreateRedemption ==
  \E bondID \in ConcurrentBondIDs, redemptionDateStr \in DateStrs,
     amount \in Amounts, now \in Nows :
    /\ HasNextTxID
    /\ Simulated("CreateRedemption",
                 [bondID |-> bondID, redemptionDate |-> redemptionDateStr,
                  amount |-> amount],
                 NextTxID, CreateReadKeys(RedemptionID(bondID, now)),
                 {RedemptionID(bondID, now)},
                 CreateRedemptionOutcome(ledger, bondID, redemptionDateStr,
                                         amount, now, now, NextTxID))

SimulateProcessCouponPayment ==
  \E couponID \in ConcurrentActionIDs, now \in Nows :
    /\ HasNextTxID
    /\ Simulated("ProcessCouponPayment", [id |-> couponID], NextTxID,
                 ProcessReadKeys(couponID), {couponID},
                 ProcessCouponPaymentOutcome(ledger, couponID, now, now,
                                             NextTxID))

SimulateProcessRedemption ==
  \E redemptionID \in ConcurrentActionIDs, now \in Nows :
    /\ HasNextTxID
    /\ Simulated("ProcessRedemption", [id |-> redemptionID], NextTxID,
                 ProcessReadKeys(redemptionID), {redemptionID},
                 ProcessRedemptionOutcome(ledger, redemptionID, now, now,
                                          NextTxID))

NextConcurrentProcess ==
  \/ SimulateCreateCouponPayment
  \/ SimulateCreateRedemption
  \/ SimulateProcessCouponPayment
  \/ SimulateProcessRedemption
  \/ Commit

SpecConcurrentProcess == Init /\ [][NextConcurrentProcess]_vars

\* two Process transactions of one kind for one identifier, simulated
\* against the same committed PENDING record, and both decided
RacingProcesses(p, q) ==
  /\ p # q
  /\ p.op = q.op
  /\ p.op \in {"ProcessCouponPayment", "ProcessRedemption"}
  /\ p.args.id = q.args.id
  /\ p.reads = q.reads
  /\ StoredStatus(p.base, p.args.id) = "PENDING"
  /\ StoredStatus(q.base, q.args.id) = "PENDING"
  /\ p.state # "endorsed" /\ q.state # "endorsed"

\* no third transaction has written the record since the two read it
NoOtherWriter(p, q) ==
  \A r \in transactions \ {p, q} :
    ~(/\ r.state = "valid"
      /\ p.args.id \in DOMAIN r.wrote
      /\ r.wrote[p.args.id] > p.reads[p.args.id])

---------------------------------------------------------------------------
(* Concurrent creation: IssueBond of the bond ledger, CreateKYC of the      *)
(* compliance registry (the bond identifier and the address below are       *)
(* different keys, so the two do not meet in the world state)               *)

CreatedBondIDs == {"B"}
CreatedAddresses == {"a"}

\* two applicants for one address
ConcurrentIdentities ==
  Identities \cup {[id EXCEPT !.fullName = "Bob"] : id \in Identities}

\* IssueBondReadKeys of an IssueBond without the existence check
IssueBondReadKeysNone(bondID) == {}

\* IssueBond reads the bond's key (BondExists) and writes it
IssueBondReadKeys(bondID) == {bondID}

\* CreateKYC reads the address's key (KYCExists) and writes it
CreateKYCReadKeys(address) == {address}

SimulateIssueBond ==
  \E bondID \in CreatedBondIDs, issuerID \in Addresses, terms \in TermsSet,
     totalSupply \in {1}, maturityDateStr \in DateStrs :
    /\ HasNextTxID
    /\ Simulated("IssueBond",
                 [key |-> bondID, issuerID |-> issuerID,
                  totalSupply |-> totalSupply, maturityDate |-> maturityDateStr],
                 NextTxID, IssueBondReadKeys(bondID), {bondID},
                 IssueBondOutcome(ledger, bondID, issuerID, terms, totalSupply,
                                  maturityDateStr, 1, 1, NextTxID))

SimulateCreateKYC ==
  \E address \in CreatedAddresses, id \in ConcurrentIdentities :
    /\ HasNextTxID
    /\ Simulated("CreateKYC", [key |-> address, identity |-> id],
                 NextTxID, CreateKYCReadKeys(address), {address},
                 CreateKYCOutcome(ledger, address, id, 1, 1, NextTxID))

NextConcurrentCreate ==
  \/ SimulateIssueBond
  \/ SimulateCreateKYC
  \/ Commit

SpecConcurrentCreate == Init /\ [][NextConcurrentCreate]_vars

\* two creations of one key, both simulated while the key held nothing
RacingCreates(p, q) ==
  /\ p # q
  /\ p.op = q.op
  /\ p.op \in {"IssueBond", "CreateKYC"}
  /\ p.args.key = q.args.key
  /\ p.args.key \notin DOMAIN p.base
  /\ q.args.key \notin DOMAIN q.base

\* C40: concurrent creation is exclusive: of two IssueBond transactions for
\* one bondID (two CreateKYC transactions for one address) simulated while
\* the key was absent, at most one is committed as valid, and a committed
\* record is never replaced by a later commit.
C40_ExclusiveCreation ==
  [][ /\ \A p \in transactions', q \in transactions' :
           RacingCreates(p, q) => ~(p.state = "valid" /\ q.state = "valid")
      /\ \A k \in DOMAIN ledger :
           k \in DOMAIN ledger' /\ ledger'[k] = ledger[k]
    ]_vars

\* C40 witness: two IssueBond transactions for bond B by different issuers
\* were simulated on the empty ledger; one was committed, the other was
\* rejected at validation, and the Bond record is the first one's.
C40_Witness ==
  \E p \in transactions, q \in transactions :
    /\ RacingCreates(p, q)
    /\ p.op = "IssueBond"
    /\ p.args.issuerID # q.args.issuerID
    /\ p.state = "valid" /\ q.state = "invalid"
    /\ ledger[p.args.key].issuerId = p.args.issuerID
    /\ last.op = "Commit" /\ last.err = "MVCC_READ_CONFLICT"

====
